---- MODULE Spec2Model ----
(***************************************************************************)
(* State-machine model of the EVA holographic 3D subsystem:                *)
(*   eva/graphics/scene.py    (SceneObject, SceneNode, Scene3D)            *)
(*   eva/graphics/camera.py   (Camera3D)                                   *)
(*   eva/graphics/renderer.py (HolographicRenderer)                        *)
(*   eva/graphics/shaders.py  (ShaderManager)                              *)
(*                                                                         *)
(* Conventions.  Python dicts are insertion-ordered: a dict is a sequence  *)
(* of <<key, value>> pairs.  SceneObjects are references into `heap`, so   *)
(* that `is` comparisons and aliasing are those of the code.  Vector3D is  *)
(* a triple <<x, y, z>>.  Return values are recorded in `call`.            *)
(***************************************************************************)
EXTENDS Integers, Sequences, FiniteSets, TLC

VARIABLES
    nodes,          \* Scene3D.nodes: dict name -> SceneNode
    objects,        \* Scene3D.objects: dict object_id -> SceneObject reference
    spatial_grid,   \* Scene3D._spatial_grid: grid key -> list of object ids
    heap,           \* the SceneObjects that exist, by reference
    camera,         \* the Camera3D
    renderer,       \* the HolographicRenderer
    call,           \* the last call made: [op, arg, ret]
    ncalls,         \* how many camera calls were made
    viewport,       \* the HolographicViewport: its panels and whether it has a renderer
    auth            \* the AuthManager with its SSO client, URL handler and event loop

vars == <<nodes, objects, spatial_grid, heap, camera, renderer, call, ncalls,
          viewport, auth>>
uiVars == <<viewport, auth>>
sceneVars == <<nodes, objects, spatial_grid, heap>>

---------------------------------------------------------------------------
(* Bounds of the model *)

MaxNodes == 3       \* node names other than "root" that callers use
MaxIds == 2         \* object ids that callers use
MaxObjs == 2        \* SceneObjects constructed during a run
MaxRelease == 2     \* vao.release() calls counted per object (2 = twice or more)
MaxCalls == 3       \* camera calls in a run of the camera specification
MaxFrames == 1      \* completed frames in a run of the renderer specification
MaxQueryObjs == 3   \* SceneObjects constructed in a run of the query specification
MaxWindowFrames == 62   \* render_frame calls in a run of the frame-window specification
MaxZooms == 10      \* zoom calls in a run of the zoom specification
MaxPanelObjs == 5   \* SceneObjects constructed in a run of the viewport specification
MaxStarts == 2      \* start_authentication calls in a run of the authentication specification
MaxCallbacks == 2   \* process_callback_url calls in a run of the authentication specification

NodeNameTable == <<"panels", "ships", "hud", "fx", "grid">>
IdTable == <<"p1", "p2", "p3", "p4", "p5">>

NodeNames == {"root"} \cup {NodeNameTable[i] : i \in 1..MaxNodes}
Ids == {IdTable[i] : i \in 1..MaxIds}
Refs == 1..MaxObjs

None == "None"
NoVec == <<>>       \* an optional Vector3D argument left out

---------------------------------------------------------------------------
(* Python containers *)

Range(s) == {s[i] : i \in DOMAIN s}

Min(a, b) == IF a <= b THEN a ELSE b
Max(a, b) == IF a >= b THEN a ELSE b

DictKeys(d) == {d[i][1] : i \in DOMAIN d}
DictHas(d, k) == k \in DictKeys(d)
DictGet(d, k) == d[CHOOSE i \in DOMAIN d : d[i][1] = k][2]
DictValues(d) == [i \in DOMAIN d |-> d[i][2]]
\* d[k] = v: an existing key keeps its place, a new key goes last
DictSet(d, k, v) ==
    IF DictHas(d, k)
    THEN [i \in DOMAIN d |-> IF d[i][1] = k THEN <<k, v>> ELSE d[i]]
    ELSE Append(d, <<k, v>>)
DictDel(d, k) == SelectSeq(d, LAMBDA e : e[1] # k)

\* list.remove(x): drops the first occurrence
ListRemove(s, x) ==
    IF x \notin Range(s) THEN s
    ELSE LET i == CHOOSE j \in DOMAIN s : s[j] = x /\ \A m \in 1..(j-1) : s[m] # x
         IN SubSeq(s, 1, i-1) \o SubSeq(s, i+1, Len(s))

---------------------------------------------------------------------------
(* SceneObject and SceneNode *)

\* a SceneObject that has not been constructed yet
NoObject ==
    [alloc |-> FALSE, position |-> <<0, 0, 0>>, visible |-> TRUE,
     selectable |-> TRUE, vertex_count |-> 0, vao |-> FALSE, released |-> 0,
     object_type |-> "generic"]

\* SceneObject(...): vao is TRUE for a GPU vertex array (it has release()),
\* FALSE for the default None
SceneObject(position, visible, selectable, vertex_count, vao) ==
    [alloc |-> TRUE, position |-> position, visible |-> visible,
     selectable |-> selectable, vertex_count |-> vertex_count, vao |-> vao,
     released |-> 0, object_type |-> "generic"]

\* SceneObject(position=..., visible=..., object_type=...)
TypedSceneObject(position, visible, object_type) ==
    [SceneObject(position, visible, TRUE, 0, FALSE) EXCEPT !.object_type = object_type]

\* SceneNode(name, parent) before parent.add_child
SceneNode(parent) == [parent |-> parent, children |-> <<>>, objects |-> <<>>]

\* SceneNode.add_child
SceneNode_add_child(node, child) ==
    IF child \in Range(node.children) THEN node
    ELSE [node EXCEPT !.children = Append(@, child)]

\* SceneNode.remove_child
SceneNode_remove_child(node, child) ==
    [node EXCEPT !.children = ListRemove(@, child)]

\* SceneNode.get_all_objects(include_children=True): own objects, then the
\* children's, depth first
RECURSIVE SceneNode_get_all_objects(_, _)
RECURSIVE ChildrenObjects(_, _)
ChildrenObjects(ns, cs) ==
    IF cs = <<>> THEN <<>>
    ELSE SceneNode_get_all_objects(ns, Head(cs)) \o ChildrenObjects(ns, Tail(cs))
SceneNode_get_all_objects(ns, name) ==
    LET node == DictGet(ns, name)
    IN DictValues(node.objects) \o ChildrenObjects(ns, node.children)

---------------------------------------------------------------------------
(* Scene3D *)

GridSize == 10

\* the grid cell of a position: int(p // grid_size) per component
GridKey(p) == <<p[1] \div GridSize, p[2] \div GridSize, p[3] \div GridSize>>

\* Scene3D._update_spatial_index
update_spatial_index(grid, object_id, position) ==
    LET key == GridKey(position)
        cell == IF key \in DOMAIN grid THEN grid[key] ELSE <<>>
    IN IF object_id \in Range(cell) THEN grid
       ELSE (key :> Append(cell, object_id)) @@ grid

\* Scene3D._remove_from_spatial_index
remove_from_spatial_index(grid, object_id, position) ==
    LET key == GridKey(position)
    IN IF key \notin DOMAIN grid THEN grid
       ELSE LET cell == ListRemove(grid[key], object_id)
            IN IF cell = <<>>
               THEN [k \in DOMAIN grid \ {key} |-> grid[k]]
               ELSE [grid EXCEPT ![key] = cell]

\* vao.release() when the object has a vao with a release method
Release(h, ref) ==
    IF h[ref].vao THEN [h EXCEPT ![ref].released = Min(@ + 1, MaxRelease)] ELSE h

\* Scene3D.__init__
Scene3D_init ==
    /\ nodes = << <<"root", SceneNode(None)>> >>
    /\ objects = <<>>
    /\ spatial_grid = <<>>
    /\ heap = [r \in Refs |-> NoObject]

\* the scene as one value, for the operations the renderer calls
Scene == [nodes |-> nodes, objects |-> objects, spatial_grid |-> spatial_grid,
          heap |-> heap]

SetScene(S) ==
    /\ nodes' = S.nodes
    /\ objects' = S.objects
    /\ spatial_grid' = S.spatial_grid
    /\ heap' = S.heap

\* the reference of the next SceneObject constructed (0 when the bound is reached)
NextRef(h) ==
    IF \A r \in DOMAIN h : h[r].alloc THEN 0
    ELSE CHOOSE r \in DOMAIN h : ~h[r].alloc /\ \A q \in DOMAIN h : q < r => h[q].alloc

\* Scene3D.create_node
create_node(name, parent_name) ==
    IF DictHas(nodes, name)
    THEN /\ call' = [op |-> "create_node", arg |-> <<name, parent_name>>, ret |-> name]
         /\ UNCHANGED <<nodes, objects, spatial_grid, heap>>
    ELSE IF ~DictHas(nodes, parent_name)
    THEN /\ call' = [op |-> "create_node", arg |-> <<name, parent_name>>, ret |-> None]
         /\ UNCHANGED <<nodes, objects, spatial_grid, heap>>
    ELSE /\ nodes' = Append(
                DictSet(nodes, parent_name,
                        SceneNode_add_child(DictGet(nodes, parent_name), name)),
                <<name, SceneNode(parent_name)>>)
         /\ call' = [op |-> "create_node", arg |-> <<name, parent_name>>, ret |-> name]
         /\ UNCHANGED <<objects, spatial_grid, heap>>

\* the loop of remove_node over all_objects: for each object, delete the first
\* entry of the flat index that is that very object
RECURSIVE RemoveByIdentity(_, _)
RemoveByIdentity(objs, refs) ==
    IF refs = <<>> THEN objs
    ELSE LET hits == {i \in DOMAIN objs : objs[i][2] = Head(refs)}
             rest == IF hits = {} THEN objs
                     ELSE LET i == CHOOSE j \in hits : \A m \in hits : j <= m
                          IN SubSeq(objs, 1, i-1) \o SubSeq(objs, i+1, Len(objs))
         IN RemoveByIdentity(rest, Tail(refs))

\* Scene3D._remove_node_recursive: the names deleted from the node table
RECURSIVE Subtree(_, _)
Subtree(ns, name) ==
    {name} \cup UNION {Subtree(ns, c) : c \in Range(DictGet(ns, name).children)}

\* a remove_node that forgets the children: only the named node is deleted
remove_node_not_recursive(ns, name) == SelectSeq(ns, LAMBDA e : e[1] # name)

remove_node_recursive(ns, name) ==
    LET gone == Subtree(ns, name)
    IN SelectSeq(ns, LAMBDA e : e[1] \notin gone)

\* Scene3D.remove_node
remove_node(name) ==
    IF name = "root" \/ ~DictHas(nodes, name)
    THEN /\ call' = [op |-> "remove_node", arg |-> <<name>>, ret |-> "False"]
         /\ UNCHANGED <<nodes, objects, spatial_grid, heap>>
    ELSE LET node == DictGet(nodes, name)
             all_objects == SceneNode_get_all_objects(nodes, name)
             detached == IF node.parent # None
                         THEN DictSet(nodes, node.parent,
                                  SceneNode_remove_child(DictGet(nodes, node.parent), name))
                         ELSE nodes
         IN /\ objects' = RemoveByIdentity(objects, all_objects)
            /\ nodes' = remove_node_recursive(detached, name)
            /\ call' = [op |-> "remove_node", arg |-> <<name>>, ret |-> "True"]
            /\ UNCHANGED <<spatial_grid, heap>>

\* an add_object that fills the flat index and the grid before it looks for
\* the node
add_object_registers_first(S, object_id, obj, ref, node_name) ==
    LET registered == [S EXCEPT
                          !.objects = DictSet(@, object_id, ref),
                          !.spatial_grid = update_spatial_index(@, object_id, obj.position),
                          !.heap = [@ EXCEPT ![ref] = obj]]
    IN IF ~DictHas(S.nodes, node_name)
       THEN [scene |-> registered, ret |-> "False"]
       ELSE [scene |->
                [registered EXCEPT
                    !.nodes = DictSet(@, node_name,
                                  [DictGet(S.nodes, node_name) EXCEPT
                                      !.objects = DictSet(@, object_id, ref)])],
             ret |-> "True"]

\* Scene3D.add_object(object_id, obj, node_name) on scene S, obj a SceneObject
\* the caller has just constructed (as add_holographic_panel does) and that
\* gets the reference ref; the result is the scene and the return value
Scene3D_add_object(S, object_id, obj, ref, node_name) ==
    IF ~DictHas(S.nodes, node_name)
    THEN [scene |-> S, ret |-> "False"]
    ELSE [scene |->
            [nodes |-> DictSet(S.nodes, node_name,
                          [DictGet(S.nodes, node_name) EXCEPT
                              !.objects = DictSet(@, object_id, ref)]),
             objects |-> DictSet(S.objects, object_id, ref),
             spatial_grid |-> update_spatial_index(S.spatial_grid, object_id,
                                                   obj.position),
             heap |-> [S.heap EXCEPT ![ref] = obj]],
          ret |-> "True"]

add_object(object_id, obj, node_name) ==
    LET ref == NextRef(heap)
        r == Scene3D_add_object(Scene, object_id, obj, ref, node_name)
    IN /\ ref # 0
       /\ SetScene(r.scene)
       /\ call' = [op |-> "add_object", arg |-> <<object_id, node_name>>, ret |-> r.ret]

\* the loop of remove_object over self.nodes.values(): the first node that
\* holds the id drops it
RemoveFromFirstNode(ns, object_id) ==
    LET holders == {i \in DOMAIN ns : DictHas(ns[i][2].objects, object_id)}
    IN IF holders = {} THEN ns
       ELSE LET i == CHOOSE j \in holders : \A m \in holders : j <= m
            IN [ns EXCEPT ![i] =
                    <<ns[i][1], [ns[i][2] EXCEPT !.objects = DictDel(@, object_id)]>>]

\* Scene3D.remove_object on scene S
Scene3D_remove_object(S, object_id) ==
    IF ~DictHas(S.objects, object_id)
    THEN [scene |-> S, ret |-> "False"]
    ELSE LET obj == DictGet(S.objects, object_id)
         IN [scene |->
                [nodes |-> RemoveFromFirstNode(S.nodes, object_id),
                 objects |-> DictDel(S.objects, object_id),
                 spatial_grid |-> remove_from_spatial_index(S.spatial_grid, object_id,
                                                            S.heap[obj].position),
                 heap |-> Release(S.heap, obj)],
             ret |-> "True"]

remove_object(object_id) ==
    LET r == Scene3D_remove_object(Scene, object_id)
    IN /\ SetScene(r.scene)
       /\ call' = [op |-> "remove_object", arg |-> <<object_id>>, ret |-> r.ret]

\* Scene3D.update_object_transform (rotation and scale touch no index)
update_object_transform(object_id, position) ==
    IF ~DictHas(objects, object_id)
    THEN /\ call' = [op |-> "update_object_transform", arg |-> <<object_id, position>>,
                     ret |-> "False"]
         /\ UNCHANGED <<nodes, objects, spatial_grid, heap>>
    ELSE LET obj == DictGet(objects, object_id)
             newpos == IF position # NoVec THEN position ELSE heap[obj].position
         IN /\ heap' = [heap EXCEPT ![obj].position = newpos]
            /\ spatial_grid' = update_spatial_index(
                    remove_from_spatial_index(spatial_grid, object_id, heap[obj].position),
                    object_id, newpos)
            /\ call' = [op |-> "update_object_transform", arg |-> <<object_id, position>>,
                        ret |-> "True"]
            /\ UNCHANGED <<nodes, objects>>

\* the release loop of clear over self.objects.values()
RECURSIVE ReleaseAll(_, _)
ReleaseAll(h, refs) ==
    IF refs = <<>> THEN h ELSE ReleaseAll(Release(h, Head(refs)), Tail(refs))

\* Scene3D.clear on scene S
Scene3D_clear(S) ==
    [nodes |-> << <<"root", SceneNode(None)>> >>,
     objects |-> <<>>,
     spatial_grid |-> <<>>,
     heap |-> ReleaseAll(S.heap, DictValues(S.objects))]

clear ==
    /\ SetScene(Scene3D_clear(Scene))
    /\ call' = [op |-> "clear", arg |-> <<>>, ret |-> None]

\* Vector3D arithmetic
VSub(a, b) == <<a[1] - b[1], a[2] - b[2], a[3] - b[3]>>
VAdd(a, b) == <<a[1] + b[1], a[2] + b[2], a[3] + b[3]>>
VScale(a, k) == <<a[1] * k, a[2] * k, a[3] * k>>
Dot(a, b) == a[1] * b[1] + a[2] * b[2] + a[3] * b[3]

SphereRadius == 1

\* a raycast test that forgets the objects behind the ray origin
raycast_accepts_behind(obj, ray_origin, ray_direction, closest_distance) ==
    LET projection_length == Dot(VSub(obj.position, ray_origin), ray_direction)
        closest_point == VAdd(ray_origin, VScale(ray_direction, projection_length))
        d == VSub(obj.position, closest_point)
    IN /\ obj.selectable
       /\ Dot(d, d) <= SphereRadius * SphereRadius
       /\ projection_length < closest_distance

\* the body of the loop of Scene3D.raycast: is this object the new closest hit?
\* (distance_to_ray <= 1.0 is compared squared, the coordinates being integers)
raycast_accepts(obj, ray_origin, ray_direction, closest_distance) ==
    LET to_object == VSub(obj.position, ray_origin)
        projection_length == Dot(to_object, ray_direction)
        closest_point == VAdd(ray_origin, VScale(ray_direction, projection_length))
        d == VSub(obj.position, closest_point)
    IN /\ obj.selectable
       /\ ~(projection_length < 0)
       /\ Dot(d, d) <= SphereRadius * SphereRadius
       /\ projection_length < closest_distance

\* the loop of Scene3D.raycast over self.objects.items(), in dict order
RECURSIVE raycast_loop(_, _, _, _, _, _)
raycast_loop(items, h, ray_origin, ray_direction, closest_object, closest_distance) ==
    IF items = <<>> THEN closest_object
    ELSE LET obj == h[Head(items)[2]]
         IN IF raycast_accepts(obj, ray_origin, ray_direction, closest_distance)
            THEN raycast_loop(Tail(items), h, ray_origin, ray_direction, Head(items)[1],
                              Dot(VSub(obj.position, ray_origin), ray_direction))
            ELSE raycast_loop(Tail(items), h, ray_origin, ray_direction,
                              closest_object, closest_distance)

\* Scene3D.raycast
raycast(ray_origin, ray_direction, max_distance) ==
    /\ call' = [op |-> "raycast", arg |-> <<ray_origin, ray_direction, max_distance>>,
                ret |-> raycast_loop(objects, heap, ray_origin, ray_direction, None,
                                     max_distance)]
    /\ UNCHANGED <<nodes, objects, spatial_grid, heap>>

\* a scan that leaves out the objects exactly at the radius
within_radius_strict(obj, position, radius) ==
    LET d == VSub(obj.position, position)
    IN Dot(d, d) < radius * radius

\* the test of find_objects_near on one object: distance_squared <= radius_squared
within_radius(obj, position, radius) ==
    LET d == VSub(obj.position, position)
    IN Dot(d, d) <= radius * radius

\* the loop of find_objects_near over self.objects.items(), in dict order
RECURSIVE find_objects_near_loop(_, _, _, _)
find_objects_near_loop(items, h, position, radius) ==
    IF items = <<>> THEN <<>>
    ELSE LET rest == find_objects_near_loop(Tail(items), h, position, radius)
         IN IF within_radius(h[Head(items)[2]], position, radius)
            THEN <<Head(items)[1]>> \o rest
            ELSE rest

\* Scene3D.find_objects_near
find_objects_near(position, radius) ==
    /\ call' = [op |-> "find_objects_near", arg |-> <<position, radius>>,
                ret |-> find_objects_near_loop(objects, heap, position, radius)]
    /\ UNCHANGED <<nodes, objects, spatial_grid, heap>>

\* Scene3D.get_objects on scene S: the SceneObjects returned, in order (None
\* stands for an argument left out or falsy)
Scene3D_get_objects(S, object_type, node_name, visible_only) ==
    IF node_name # None /\ ~DictHas(S.nodes, node_name) THEN <<>>
    ELSE LET objs == IF node_name # None
                     THEN DictValues(DictGet(S.nodes, node_name).objects)
                     ELSE DictValues(S.objects)
         IN SelectSeq(objs, LAMBDA obj :
                /\ ~(visible_only /\ ~S.heap[obj].visible)
                /\ ~(object_type # None /\ S.heap[obj].object_type # object_type))

get_objects(object_type, node_name, visible_only) ==
    /\ call' = [op |-> "get_objects", arg |-> <<object_type, node_name, visible_only>>,
                ret |-> Scene3D_get_objects(Scene, object_type, node_name, visible_only)]
    /\ UNCHANGED <<nodes, objects, spatial_grid, heap>>

---------------------------------------------------------------------------
(* Camera3D.  Lengths are in thousandths of a unit, angles in half degrees  *)
(* (rotation_speed is 0.5 degrees per unit of delta); matrices are 4x4      *)
(* tuples of thousandths.                                                   *)

Scale == 1000
HalfTurn == 360             \* 180 degrees
FullTurn == 720             \* 360 degrees

\* a / b rounded to the nearest integer, b # 0
RoundDiv(a, b) ==
    IF b > 0 THEN (2 * a + b) \div (2 * b) ELSE (2 * (0 - a) - b) \div (2 * (0 - b))

\* floor of the square root (Newton's iteration from above)
RECURSIVE IsqrtIter(_, _)
IsqrtIter(n, x) ==
    LET y == (x + n \div x) \div 2
    IN IF y >= x THEN x ELSE IsqrtIter(n, y)
Isqrt(n) == IF n < 2 THEN n ELSE IsqrtIter(n, n \div Scale + Scale)

\* math.sqrt(x*x + y*y + z*z)
Norm(v) == Isqrt(Dot(v, v))

\* math.sin and math.cos of an angle in half degrees, in thousandths
\* (Bhaskara's rational approximation, exact at 0, 30, 90 and 180 degrees)
SinHalfTurn(h) == RoundDiv(4 * Scale * h * (HalfTurn - h), 162000 - h * (HalfTurn - h))
Sin(h) ==
    LET a == h % FullTurn
    IN IF a <= HalfTurn THEN SinHalfTurn(a) ELSE 0 - SinHalfTurn(a - HalfTurn)
Cos(h) == Sin(h + 180)

\* the product of two fixed-point numbers
Mul(a, b) == RoundDiv(a * b, Scale)

Cross(a, b) ==
    <<Mul(a[2], b[3]) - Mul(a[3], b[2]),
      Mul(a[3], b[1]) - Mul(a[1], b[3]),
      Mul(a[1], b[2]) - Mul(a[2], b[1])>>

\* v / length, component by component
VDiv(v, length) ==
    <<RoundDiv(v[1] * Scale, length), RoundDiv(v[2] * Scale, length),
      RoundDiv(v[3] * Scale, length)>>

NoMatrix == <<>>                        \* a cache that was never filled
NaNMatrix == <<"nan">>                  \* rows 0..2 are NaN
ZeroDivisionError == <<"ZeroDivisionError">>

MoveSpeed == 1000           \* move_speed = 1.0
DefaultPosition == <<0, 0, 5000>>
DefaultUp == <<0, 1000, 0>>
MaxPitch == 178             \* 89 degrees
MinOrbitPhi == 11           \* 0.1 rad
MinZoomLength == 100        \* 0.1

\* Camera3D.__init__
Camera3D_init ==
    [position |-> DefaultPosition, target |-> <<0, 0, 0>>, up |-> DefaultUp,
     fov |-> 45, aspect_ratio |-> <<16, 9>>, near_plane |-> 100, far_plane |-> 1000000,
     yaw |-> 0, pitch |-> 0, roll |-> 0,
     view_matrix_cache |-> NoMatrix, projection_matrix_cache |-> NoMatrix,
     view_dirty |-> TRUE, projection_dirty |-> TRUE]

Camera3D_set_position(c, v) == [c EXCEPT !.position = v, !.view_dirty = TRUE]

Camera3D_set_target(c, v) == [c EXCEPT !.target = v, !.view_dirty = TRUE]

Camera3D_look_at(c, v) == [c EXCEPT !.target = v, !.view_dirty = TRUE]

Camera3D_set_perspective(c, fov, aspect, near, far) ==
    [c EXCEPT !.fov = fov, !.aspect_ratio = aspect, !.near_plane = near,
              !.far_plane = far, !.projection_dirty = TRUE]

Camera3D_set_aspect_ratio(c, aspect) ==
    [c EXCEPT !.aspect_ratio = aspect, !.projection_dirty = TRUE]

\* Camera3D._get_forward_vector
get_forward_vector(c) ==
    LET direction == VSub(c.target, c.position)
        length == Norm(direction)
    IN IF length > 0 THEN VDiv(direction, length) ELSE direction

\* Camera3D._get_right_vector
get_right_vector(c) ==
    LET right == Cross(get_forward_vector(c), c.up)
        length == Norm(right)
    IN IF length > 0 THEN VDiv(right, length) ELSE right

Camera3D_move_forward(c, distance) ==
    LET forward == get_forward_vector(c)
        step(x) == Mul(Mul(x, distance), MoveSpeed)
    IN [c EXCEPT !.position = VAdd(@, <<step(forward[1]), step(forward[2]),
                                       step(forward[3])>>),
                 !.view_dirty = TRUE]

Camera3D_move_right(c, distance) ==
    LET right == get_right_vector(c)
        step(x) == Mul(Mul(x, distance), MoveSpeed)
    IN [c EXCEPT !.position = VAdd(@, <<step(right[1]), step(right[2]), step(right[3])>>),
                 !.view_dirty = TRUE]

Camera3D_move_up(c, distance) ==
    [c EXCEPT !.position = VAdd(@, <<0, Mul(distance, MoveSpeed), 0>>),
              !.view_dirty = TRUE]

\* Camera3D._update_target_from_angles
update_target_from_angles(c) ==
    LET forward_x == Mul(Cos(c.pitch), Cos(c.yaw))
        forward_y == Sin(c.pitch)
        forward_z == Mul(Cos(c.pitch), Sin(c.yaw))
    IN [c EXCEPT !.target = VAdd(c.position, <<forward_x, forward_y, forward_z>>)]

\* a delta_yaw that is negative and so small (-2e-17 for instance) that its
\* product with rotation_speed is less than half the spacing of the floats
\* next to 360.0
TinyNegative == 0 - FullTurn * Scale

\* self.yaw += delta_yaw * self.rotation_speed; self.yaw = self.yaw % 360.0 in
\* float arithmetic.  The sum with a tiny delta is the old yaw, unless the old
\* yaw is 0.0: then the sum is the tiny negative number itself and the exact
\* remainder, 360 minus that little, rounds to 360.0
YawAfter(yaw, delta_yaw) ==
    IF delta_yaw = TinyNegative
    THEN IF yaw = 0 THEN FullTurn ELSE yaw % FullTurn
    ELSE (yaw + delta_yaw) % FullTurn

\* Camera3D.rotate; a delta of d degrees is d half degrees after rotation_speed
Camera3D_rotate(c, delta_yaw, delta_pitch) ==
    LET pitch == Max(0 - MaxPitch, Min(MaxPitch, c.pitch + delta_pitch))
        yaw == YawAfter(c.yaw, delta_yaw)
    IN [update_target_from_angles([c EXCEPT !.yaw = yaw, !.pitch = pitch])
            EXCEPT !.view_dirty = TRUE]

\* a zoom without the floor on the new length
zoom_without_floor(c, factor) ==
    LET direction == VSub(c.position, c.target)
        length == Norm(direction)
    IN IF length > MinZoomLength
       THEN LET new_length == Mul(length, factor)
                along(x) == RoundDiv(x * new_length, length)
            IN [c EXCEPT !.position = VAdd(c.target, <<along(direction[1]),
                                               along(direction[2]), along(direction[3])>>),
                         !.view_dirty = TRUE]
       ELSE c

\* Camera3D.zoom, factor in thousandths
Camera3D_zoom(c, factor) ==
    LET direction == VSub(c.position, c.target)
        length == Norm(direction)
    IN IF length > MinZoomLength
       THEN LET new_length == Max(MinZoomLength, Mul(length, factor))
                along(x) == RoundDiv(x * new_length, length)
            IN [c EXCEPT !.position = VAdd(c.target, <<along(direction[1]),
                                               along(direction[2]), along(direction[3])>>),
                         !.view_dirty = TRUE]
       ELSE c

\* math.acos(x) in half degrees, x in thousandths: the inverse of Cos above,
\* cos(h) = (HalfTurn^2 - 4 h^2) / (HalfTurn^2 + h^2) for h up to a quarter turn
AcosQuarter(x) == Isqrt(RoundDiv(HalfTurn * HalfTurn * (Scale - x), 4 * Scale + x))
Acos(x) ==
    IF x >= Scale THEN 0
    ELSE IF x >= 0 THEN AcosQuarter(x)
    ELSE IF x > 0 - Scale THEN HalfTurn - AcosQuarter(0 - x)
    ELSE HalfTurn

\* math.atan2(y, x) in half degrees, in (-360, 360]
Atan2(y, x) ==
    LET r == Isqrt(x * x + y * y)
        angle == Acos(RoundDiv(x * Scale, r))
    IN IF r = 0 THEN 0 ELSE IF y >= 0 THEN angle ELSE 0 - angle

\* an orbit that takes the radius in the horizontal plane only
orbit_planar_radius(c, delta_yaw, delta_pitch) ==
    LET d == VSub(c.position, c.target)
        radius == Norm(<<d[1], 0, d[3]>>)
        theta == Atan2(d[3], d[1]) + delta_yaw
        phi0 == IF radius > 0 THEN Acos(RoundDiv(d[2] * Scale, radius)) ELSE 0
        phi == Max(MinOrbitPhi, Min(HalfTurn - MinOrbitPhi, phi0 + delta_pitch))
    IN [c EXCEPT !.position =
                    VAdd(c.target, <<Mul(Mul(radius, Sin(phi)), Cos(theta)),
                                     Mul(radius, Cos(phi)),
                                     Mul(Mul(radius, Sin(phi)), Sin(theta))>>),
                 !.view_dirty = TRUE]

\* Camera3D.orbit_around_target
Camera3D_orbit_around_target(c, delta_yaw, delta_pitch) ==
    LET d == VSub(c.position, c.target)
        radius == Norm(d)
        theta == Atan2(d[3], d[1]) + delta_yaw
        phi0 == IF radius > 0 THEN Acos(RoundDiv(d[2] * Scale, radius)) ELSE 0
        phi == Max(MinOrbitPhi, Min(HalfTurn - MinOrbitPhi, phi0 + delta_pitch))
    IN [c EXCEPT !.position =
                    VAdd(c.target, <<Mul(Mul(radius, Sin(phi)), Cos(theta)),
                                     Mul(radius, Cos(phi)),
                                     Mul(Mul(radius, Sin(phi)), Sin(theta))>>),
                 !.view_dirty = TRUE]

Camera3D_reset_to_default(c) ==
    [c EXCEPT !.position = DefaultPosition, !.target = <<0, 0, 0>>, !.up = DefaultUp,
              !.yaw = 0, !.pitch = 0, !.roll = 0, !.view_dirty = TRUE]

\* the product of two 4x4 matrices
MatMul(a, b) ==
    [i \in 1..4 |-> [j \in 1..4 |->
        RoundDiv(a[i][1] * b[1][j] + a[i][2] * b[2][j] + a[i][3] * b[3][j]
                 + a[i][4] * b[4][j], Scale)]]

\* Camera3D._calculate_view_matrix: the look-at matrix; numpy divides by a
\* zero norm without raising and the NaN spreads over rows 0..2
calculate_view_matrix(c) ==
    LET f0 == VSub(c.target, c.position)
        forward == VDiv(f0, Norm(f0))
        r0 == Cross(forward, c.up)
        right == VDiv(r0, Norm(r0))
        up == Cross(right, forward)
        rotation == [i \in 1..4 |->
                        IF i = 4 THEN <<0, 0, 0, Scale>>
                        ELSE <<right[i], up[i], 0 - forward[i], 0>>]
        translation == [i \in 1..4 |->
                        IF i = 4 THEN <<0, 0, 0, Scale>>
                        ELSE [j \in 1..4 |->
                                IF j = i THEN Scale
                                ELSE IF j = 4 THEN 0 - c.position[i] ELSE 0]]
    IN IF Norm(f0) = 0 THEN NaNMatrix
       ELSE IF Norm(r0) = 0 THEN NaNMatrix
       ELSE MatMul(rotation, translation)

\* a get_view_matrix that trusts its cache whatever the dirty flag says
get_view_matrix_stale(c) ==
    IF c.view_matrix_cache = NoMatrix
    THEN [c EXCEPT !.view_matrix_cache = calculate_view_matrix(c), !.view_dirty = FALSE]
    ELSE c

\* a test that sends every read to _calculate_view_matrix
view_always_recomputed(c) == TRUE

\* the test of get_view_matrix: self._view_dirty or self._view_matrix_cache is None
view_recomputed(c) == c.view_dirty \/ c.view_matrix_cache = NoMatrix

\* Camera3D.get_view_matrix: the camera afterwards (the cache is what is returned)
Camera3D_get_view_matrix(c) ==
    IF view_recomputed(c)
    THEN [c EXCEPT !.view_matrix_cache = calculate_view_matrix(c), !.view_dirty = FALSE]
    ELSE c

\* Camera3D._calculate_projection_matrix; 1/tan(0), a zero aspect ratio and
\* near = far divide by zero
calculate_projection_matrix(c) ==
    LET num == c.aspect_ratio[1]
        den == c.aspect_ratio[2]
    IN IF Sin(c.fov) = 0 \/ num = 0 \/ c.near_plane = c.far_plane
       THEN ZeroDivisionError
       ELSE LET f == RoundDiv(Cos(c.fov) * Scale, Sin(c.fov))
            IN << <<RoundDiv(f * den, num), 0, 0, 0>>,
                  <<0, f, 0, 0>>,
                  <<0, 0,
                    RoundDiv((c.far_plane + c.near_plane) * Scale,
                             c.near_plane - c.far_plane),
                    RoundDiv(2 * c.far_plane * c.near_plane,
                             c.near_plane - c.far_plane)>>,
                  <<0, 0, 0 - Scale, 0>> >>

\* the test of get_projection_matrix: self._projection_dirty or
\* self._projection_matrix_cache is None
projection_recomputed(c) == c.projection_dirty \/ c.projection_matrix_cache = NoMatrix

\* Camera3D.get_projection_matrix: the camera afterwards, and whether it raised
Camera3D_get_projection_matrix(c) ==
    IF projection_recomputed(c)
    THEN IF calculate_projection_matrix(c) = ZeroDivisionError
         THEN [camera |-> c, raised |-> TRUE]
         ELSE [camera |-> [c EXCEPT !.projection_matrix_cache =
                                        calculate_projection_matrix(c),
                                    !.projection_dirty = FALSE],
               raised |-> FALSE]
    ELSE [camera |-> c, raised |-> FALSE]

---------------------------------------------------------------------------
(* ShaderManager and HolographicRenderer.  Times are in milliseconds.       *)

Programs == {"holographic_wireframe", "holographic_panel", "particle_system",
             "bloom_postprocess"}

\* ShaderManager._compile_program: a failure is logged and answered False
compile_program(programs, name, failing) ==
    IF name \in failing
    THEN [programs |-> programs, ret |-> FALSE]
    ELSE [programs |-> programs \cup {name}, ret |-> TRUE]

\* ShaderManager.initialize: the four programs are compiled in turn and the
\* answers of _compile_program are not looked at
ShaderManager_initialize(moderngl_available, failing) ==
    IF ~moderngl_available THEN [programs |-> {}, ret |-> FALSE] ELSE
    LET p1 == compile_program({}, "holographic_wireframe", failing).programs
        p2 == compile_program(p1, "holographic_panel", failing).programs
        p3 == compile_program(p2, "particle_system", failing).programs
        p4 == compile_program(p3, "bloom_postprocess", failing).programs
    IN [programs |-> p4, ret |-> TRUE]

\* width / height as a fraction in lowest terms
RECURSIVE Gcd(_, _)
Gcd(a, b) == IF b = 0 THEN a ELSE Gcd(b, a % b)
Ratio(w, h) == IF w = 0 THEN <<0, 1>> ELSE <<w \div Gcd(w, h), h \div Gcd(w, h)>>

PanelVertexCount == 24      \* len(indices) of the wireframe box: 12 edges
FrameWindow == 60

\* RenderStats()
RenderStats_init ==
    [frame_time |-> 0, fps |-> 0, triangles_rendered |-> 0, draw_calls |-> 0,
     vertices_processed |-> 0]

\* HolographicRenderer.__init__ (camera and scene are made beside it)
HolographicRenderer_init(opengl_available) ==
    [opengl_available |-> opengl_available, ctx |-> FALSE, shader_manager |-> FALSE,
     programs |-> {}, is_initialized |-> FALSE, viewport_size |-> <<800, 600>>,
     frame_buffer |-> "None", stats |-> RenderStats_init, frame_times |-> <<>>]

\* HolographicRenderer._create_framebuffer: a failure is logged and
\* self.frame_buffer keeps what it had
create_framebuffer(r, fails) ==
    IF ~r.ctx \/ fails THEN r ELSE [r EXCEPT !.frame_buffer = "live"]

\* HolographicRenderer.initialize_gl.  gl says what the GL calls do:
\* gl.context is "ok", "raises" or "none" (mgl.create_context), gl.failing the
\* programs that do not compile, gl.configure_raises (_configure_opengl_state)
\* and gl.framebuffer_raises (the texture and framebuffer calls)
initialize_gl_result(r, c, gl) ==
    IF ~r.opengl_available THEN [renderer |-> r, camera |-> c, ret |-> "False"]
    ELSE IF gl.context = "raises" THEN [renderer |-> r, camera |-> c, ret |-> "False"]
    ELSE IF gl.context = "none"
    THEN [renderer |-> [r EXCEPT !.ctx = FALSE], camera |-> c, ret |-> "False"]
    ELSE LET sm == ShaderManager_initialize(r.opengl_available, gl.failing)
             r1 == [r EXCEPT !.ctx = TRUE, !.shader_manager = TRUE,
                             !.programs = sm.programs]
         IN IF ~sm.ret THEN [renderer |-> r1, camera |-> c, ret |-> "False"]
            ELSE IF gl.configure_raises \/ r.viewport_size[2] = 0
            THEN [renderer |-> r1, camera |-> c, ret |-> "False"]
            ELSE [renderer |-> [create_framebuffer(r1, gl.framebuffer_raises)
                                   EXCEPT !.is_initialized = TRUE],
                  camera |-> Camera3D_set_position(
                                Camera3D_set_perspective(c, 45,
                                    Ratio(r.viewport_size[1], r.viewport_size[2]),
                                    100, 1000000),
                                DefaultPosition),
                  ret |-> "True"]

initialize_gl(gl) ==
    LET res == initialize_gl_result(renderer, camera, gl)
    IN /\ renderer' = res.renderer
       /\ camera' = res.camera
       /\ call' = [op |-> "initialize_gl", arg |-> <<gl.context, gl.failing>>,
                   ret |-> res.ret]
       /\ UNCHANGED sceneVars

\* HolographicRenderer.resize_viewport; width / height raises when height is 0,
\* after viewport_size has been set
resize_viewport(width, height, framebuffer_raises) ==
    LET r1 == [renderer EXCEPT !.viewport_size = <<width, height>>]
        r2 == IF r1.frame_buffer # "None"
              THEN create_framebuffer([r1 EXCEPT !.frame_buffer = "released"],
                                      framebuffer_raises)
              ELSE r1
    IN IF height = 0
       THEN /\ renderer' = r1
            /\ call' = [op |-> "resize_viewport", arg |-> <<width, height>>,
                        ret |-> "raised"]
            /\ UNCHANGED <<camera, sceneVars>>
       ELSE /\ renderer' = r2
            /\ camera' = Camera3D_set_aspect_ratio(camera, Ratio(width, height))
            /\ call' = [op |-> "resize_viewport", arg |-> <<width, height>>,
                        ret |-> None]
            /\ UNCHANGED sceneVars

\* HolographicRenderer._create_panel_object: is a SceneObject made?  Not
\* without a context or a shader manager, and not when a GL call raises
\* (ctx.vertex_array does without the wireframe program)
panel_object_created(r, gl_raises) ==
    /\ r.ctx
    /\ r.shader_manager
    /\ ~gl_raises
    /\ "holographic_wireframe" \in r.programs

\* HolographicRenderer.add_holographic_panel
add_holographic_panel(panel_id, position, gl_raises) ==
    IF panel_object_created(renderer, gl_raises)
    THEN LET ref == NextRef(heap)
             obj == SceneObject(position, TRUE, TRUE, PanelVertexCount, TRUE)
         IN /\ ref # 0
            /\ SetScene(Scene3D_add_object(Scene, panel_id, obj, ref, "root").scene)
            /\ call' = [op |-> "add_holographic_panel", arg |-> <<panel_id>>,
                        ret |-> "True"]
            /\ UNCHANGED <<camera, renderer>>
    ELSE /\ call' = [op |-> "add_holographic_panel", arg |-> <<panel_id>>,
                     ret |-> "False"]
         /\ UNCHANGED <<camera, renderer, sceneVars>>

\* HolographicRenderer.remove_holographic_panel
remove_holographic_panel(panel_id) ==
    LET res == Scene3D_remove_object(Scene, panel_id)
    IN /\ SetScene(res.scene)
       /\ call' = [op |-> "remove_holographic_panel", arg |-> <<panel_id>>,
                   ret |-> res.ret]
       /\ UNCHANGED <<camera, renderer>>

\* Scene3D.get_objects(visible_only=True) with no type and no node: the
\* visible objects of the flat index, in its order
RECURSIVE VisibleObjects(_, _)
VisibleObjects(items, h) ==
    IF items = <<>> THEN <<>>
    ELSE IF h[Head(items)[2]].visible
         THEN <<Head(items)[2]>> \o VisibleObjects(Tail(items), h)
         ELSE VisibleObjects(Tail(items), h)

RECURSIVE SumVertices(_, _)
SumVertices(refs, h) ==
    IF refs = <<>> THEN 0 ELSE h[Head(refs)].vertex_count + SumVertices(Tail(refs), h)

\* a window that is never trimmed
update_performance_stats_unbounded(r, frame_time) ==
    [r EXCEPT !.stats.frame_time = frame_time,
              !.frame_times = Append(@, frame_time),
              !.stats.fps = IF frame_time > 0 THEN RoundDiv(1000, frame_time) ELSE @]

\* HolographicRenderer._update_performance_stats
update_performance_stats(r, frame_time) ==
    LET times == Append(r.frame_times, frame_time)
    IN [r EXCEPT !.stats.frame_time = frame_time,
                 !.frame_times = IF Len(times) > FrameWindow THEN Tail(times) ELSE times,
                 !.stats.fps = IF frame_time > 0 THEN RoundDiv(1000, frame_time) ELSE @]

\* the steps of render_frame that can raise
FailNone == 0
FailUse == 1                \* frame_buffer.use()
FailClear == 2              \* ctx.clear()
FailUniforms == 3           \* program.use() and the common uniforms
                            \* FailUniforms + k: the k-th object's uniforms or render

\* a render_frame whose except clause gives up on the renderer
render_frame_gives_up(r, c, S, fail_at, frame_time) ==
    IF ~r.is_initialized \/ ~r.ctx
    THEN [renderer |-> r, camera |-> c, ret |-> "skipped"]
    ELSE IF fail_at # FailNone
    THEN [renderer |-> [r EXCEPT !.is_initialized = FALSE], camera |-> c,
          ret |-> "caught"]
    ELSE [renderer |-> update_performance_stats(r, frame_time), camera |-> c,
          ret |-> "completed"]

\* HolographicRenderer.render_frame with _render_scene_objects: the renderer
\* and camera afterwards, and how the call ended ("skipped" by the guard,
\* "completed", or "caught" when a step raised and the except clause logged it)
render_frame_result(r, c, S, fail_at, frame_time) ==
    IF ~r.is_initialized \/ ~r.ctx
    THEN [renderer |-> r, camera |-> c, ret |-> "skipped"]
    ELSE IF r.frame_buffer # "None" /\ (fail_at = FailUse \/ r.frame_buffer = "released")
    THEN [renderer |-> r, camera |-> c, ret |-> "caught"]
    ELSE IF fail_at = FailClear
    THEN [renderer |-> r, camera |-> c, ret |-> "caught"]
    ELSE LET c1 == Camera3D_get_view_matrix(c)
             proj == Camera3D_get_projection_matrix(c1)
             r0 == [r EXCEPT !.stats.draw_calls = 0, !.stats.triangles_rendered = 0,
                             !.stats.vertices_processed = 0]
             visible == VisibleObjects(S.objects, S.heap)
             draws == r.shader_manager /\ "holographic_wireframe" \in r.programs
             drawn(n) == [r0 EXCEPT
                            !.stats.draw_calls = n,
                            !.stats.vertices_processed =
                                SumVertices(SubSeq(visible, 1, n), S.heap)]
         IN IF proj.raised
            THEN [renderer |-> r, camera |-> c1, ret |-> "caught"]
            ELSE IF draws /\ fail_at = FailUniforms
            THEN [renderer |-> r0, camera |-> proj.camera, ret |-> "caught"]
            ELSE IF draws /\ fail_at > FailUniforms
                          /\ fail_at - FailUniforms <= Len(visible)
            THEN [renderer |-> drawn(fail_at - FailUniforms - 1),
                  camera |-> proj.camera, ret |-> "caught"]
            ELSE [renderer |->
                    update_performance_stats(
                        IF draws THEN drawn(Len(visible)) ELSE r0, frame_time),
                  camera |-> proj.camera, ret |-> "completed"]

render_frame(fail_at, frame_time) ==
    LET res == render_frame_result(renderer, camera, Scene, fail_at, frame_time)
    IN /\ renderer' = res.renderer
       /\ camera' = res.camera
       /\ call' = [op |-> "render_frame", arg |-> <<fail_at>>,
                   ret |-> res.ret]
       /\ UNCHANGED sceneVars

\* HolographicRenderer.cleanup
cleanup ==
    /\ renderer' = [renderer EXCEPT !.frame_buffer = "None", !.shader_manager = FALSE,
                                    !.programs = {}, !.ctx = FALSE,
                                    !.is_initialized = FALSE]
    /\ SetScene(Scene3D_clear(Scene))
    /\ call' = [op |-> "cleanup", arg |-> <<>>, ret |-> None]
    /\ UNCHANGED camera

---------------------------------------------------------------------------
(* HolographicViewport *)

\* the panels of _create_demo_panels; the z of demo_status, -0.5, is taken to
\* the whole unit of the same grid cell
DemoPanels == << <<"demo_command", <<0, 0, 0>> >>,
                 <<"demo_navigation", <<4, 1, -1>> >>,
                 <<"demo_status", <<-4, -1, -1>> >> >>
DemoIds == {DemoPanels[k][1] : k \in DOMAIN DemoPanels}

\* HolographicViewport.__init__: no renderer yet and no panels.  panels holds
\* the keys of self.panels, has_renderer says that self.renderer is set, and
\* gl_started that Qt has made its one call of initializeGL
HolographicViewport_init ==
    [panels |-> {}, has_renderer |-> FALSE, gl_started |-> FALSE]

\* HolographicRenderer.add_holographic_panel as a function of the renderer and
\* the scene: the scene afterwards
panel_added_to_scene(r, S, panel_id, position, gl_raises) ==
    IF panel_object_created(r, gl_raises)
    THEN Scene3D_add_object(S, panel_id,
                            SceneObject(position, TRUE, TRUE, PanelVertexCount, TRUE),
                            NextRef(S.heap), "root").scene
    ELSE S

\* HolographicViewport.add_panel as a function: the panel is tracked whatever
\* happens, and handed to the renderer only when there is one; what the
\* renderer returns is dropped
viewport_add_panel(v, r, S, panel_id, position, gl_raises) ==
    [viewport |-> [v EXCEPT !.panels = @ \cup {panel_id}],
     scene |-> IF v.has_renderer
               THEN panel_added_to_scene(r, S, panel_id, position, gl_raises)
               ELSE S]

\* HolographicViewport._create_demo_panels: three add_panel calls in a row;
\* raising holds the demo panels whose GL calls raise
RECURSIVE create_demo_panels(_, _, _, _, _)
create_demo_panels(v, r, S, k, raising) ==
    IF k > Len(DemoPanels) THEN [viewport |-> v, scene |-> S]
    ELSE LET res == viewport_add_panel(v, r, S, DemoPanels[k][1], DemoPanels[k][2],
                                       DemoPanels[k][1] \in raising)
         IN create_demo_panels(res.viewport, r, res.scene, k + 1, raising)

\* HolographicViewport.initializeGL: a new renderer (with a new camera and a
\* new scene) is made and initialized; the demo panels follow on success, and
\* on failure the viewport drops the renderer.  Panels already tracked are
\* not handed to the new renderer
initializeGL(gl, raising) ==
    LET res == initialize_gl_result(HolographicRenderer_init(renderer.opengl_available),
                                    Camera3D_init, gl)
        v1 == [viewport EXCEPT !.has_renderer = TRUE, !.gl_started = TRUE]
        demo == create_demo_panels(v1, res.renderer, Scene3D_clear(Scene), 1, raising)
    IN /\ ~viewport.gl_started
       /\ renderer' = res.renderer
       /\ camera' = res.camera
       /\ IF res.ret = "True"
          THEN /\ viewport' = demo.viewport
               /\ SetScene(demo.scene)
          ELSE /\ viewport' = [v1 EXCEPT !.has_renderer = FALSE]
               /\ SetScene(Scene3D_clear(Scene))
       /\ call' = [op |-> "initializeGL", arg |-> <<gl.context, gl.failing>>,
                   ret |-> None]

\* HolographicViewport.add_panel
add_panel(panel_id, position, gl_raises) ==
    LET res == viewport_add_panel(viewport, renderer, Scene, panel_id, position,
                                  gl_raises)
    IN /\ NextRef(heap) # 0
       /\ viewport' = res.viewport
       /\ SetScene(res.scene)
       /\ call' = [op |-> "add_panel", arg |-> <<panel_id>>, ret |-> None]
       /\ UNCHANGED <<camera, renderer>>

\* HolographicViewport.remove_panel
remove_panel(panel_id) ==
    IF panel_id \in viewport.panels
    THEN /\ viewport' = [viewport EXCEPT !.panels = @ \ {panel_id}]
         /\ IF viewport.has_renderer
            THEN SetScene(Scene3D_remove_object(Scene, panel_id).scene)
            ELSE UNCHANGED sceneVars
         /\ call' = [op |-> "remove_panel", arg |-> <<panel_id>>, ret |-> "True"]
         /\ UNCHANGED <<camera, renderer>>
    ELSE /\ call' = [op |-> "remove_panel", arg |-> <<panel_id>>, ret |-> "False"]
         /\ UNCHANGED <<camera, renderer, sceneVars, viewport>>

\* HolographicViewport.cleanup
viewport_cleanup ==
    /\ viewport' = [viewport EXCEPT !.panels = {}, !.has_renderer = FALSE]
    /\ IF viewport.has_renderer
       THEN /\ renderer' = [renderer EXCEPT !.frame_buffer = "None",
                                            !.shader_manager = FALSE,
                                            !.programs = {}, !.ctx = FALSE,
                                            !.is_initialized = FALSE]
            /\ SetScene(Scene3D_clear(Scene))
       ELSE UNCHANGED <<renderer, sceneVars>>
    /\ call' = [op |-> "viewport_cleanup", arg |-> <<>>, ret |-> None]
    /\ UNCHANGED camera

---------------------------------------------------------------------------
(* AuthenticationManager *)

\* A URL is the sequence of its pieces: the delimiters ":", "/", "?", "&",
\* "=" and the text between them
protocol_scheme == "eveauth-eva"
callback_path == "callback"

\* URLProtocolHandler.get_callback_url: f"{protocol_scheme}://{callback_path}"
get_callback_url == <<protocol_scheme, ":", "/", "/", callback_path>>

Drop(s, n) == SubSeq(s, n + 1, Len(s))

\* the longest prefix of s with no piece of stops
RECURSIVE UpTo(_, _)
UpTo(s, stops) ==
    IF s = <<>> \/ s[1] \in stops THEN <<>>
    ELSE <<s[1]>> \o UpTo(Tail(s), stops)

\* urllib.parse.urlparse: the scheme is what stands before the first ":",
\* the netloc what follows "//" up to the next "/" or "?", the path what
\* comes then up to "?", and the query the rest
urlparse(url) ==
    LET has_scheme == Len(url) >= 2 /\ url[2] = ":" /\ url[1] \notin {":", "/", "?"}
        rest == IF has_scheme THEN Drop(url, 2) ELSE url
        has_netloc == Len(rest) >= 2 /\ rest[1] = "/" /\ rest[2] = "/"
        netloc == IF has_netloc THEN UpTo(Drop(rest, 2), {"/", "?"}) ELSE <<>>
        after == IF has_netloc THEN Drop(rest, 2 + Len(netloc)) ELSE rest
        path == UpTo(after, {"?"})
    IN [scheme |-> IF has_scheme THEN url[1] ELSE "",
        netloc |-> netloc,
        path |-> path,
        query |-> Drop(after, Len(path) + 1)]

\* str.lstrip('/')
RECURSIVE lstrip_slash(_)
lstrip_slash(s) ==
    IF s # <<>> /\ s[1] = "/" THEN lstrip_slash(Tail(s)) ELSE s

\* urllib.parse.parse_qs as a dict of lists: the fields are cut at "&", a
\* field is name "=" value, and a field with a blank value is left out
RECURSIVE parse_qs(_)
parse_qs(query) ==
    IF query = <<>> THEN <<>>
    ELSE LET field == UpTo(query, {"&"})
             later == parse_qs(Drop(query, Len(field) + 1))
         IN IF Len(field) = 3 /\ field[2] = "="
            THEN IF DictHas(later, field[1])
                 THEN DictSet(later, field[1], <<field[3]>> \o DictGet(later, field[1]))
                 ELSE << <<field[1], <<field[3]>> >> >> \o later
            ELSE later

\* params.get(name, [None])[0]
first_param(params, name) ==
    IF DictHas(params, name) THEN DictGet(params, name)[1] ELSE None

\* URLProtocolHandler.process_callback_url: what it returns and the
\* callback_received signals it emits
process_callback_url_result(url) ==
    LET parsed == urlparse(url)
        params == parse_qs(parsed.query)
        authorization_code == first_param(params, "code")
        state == first_param(params, "state")
        error == first_param(params, "error")
    IN IF parsed.scheme # protocol_scheme THEN [ret |-> "False", emitted |-> <<>>]
       ELSE IF lstrip_slash(parsed.path) # <<callback_path>>
       THEN [ret |-> "False", emitted |-> <<>>]
       ELSE IF error # None THEN [ret |-> "False", emitted |-> <<>>]
       ELSE IF authorization_code = None \/ state = None
       THEN [ret |-> "False", emitted |-> <<>>]
       ELSE [ret |-> "True", emitted |-> << <<authorization_code, state>> >>]

StateTable == <<"s1", "s2", "s3">>      \* the states random.choices makes, in order
TokenTable == <<"t1", "t2", "t3">>      \* the access tokens the token endpoint hands out
RefreshTable == <<"r1", "r2", "r3">>    \* and the refresh tokens beside them
StateIndex(state) == CHOOSE k \in DOMAIN StateTable : StateTable[k] = state

DefaultExpiresIn == 1200    \* token_data.get("expires_in", 1200)
ExpiresSoon == 300          \* timedelta(minutes=5)
Now == 0                    \* datetime.utcnow(), which stands still in a run

\* AuthenticationManager.__init__ with its URLProtocolHandler, the
\* SSOAuthenticator it makes later, and the event loop.
\*   timer       auth_timeout_timer: 0 when stopped, else the number of the
\*               state whose start_authentication started it
\*   token_expires_at  <<>> for None, else <<the time>>
\*   tasks       the coroutines suspended at an await
\*   outcomes    authentication_completed / authentication_failed signals
\*               emitted so far for each state, start failures apart
\*   returned_true  the states whose start_authentication returned True
AuthManager_init ==
    [client_id |-> TRUE,
     sso_auth |-> FALSE, is_authenticating |-> FALSE, current_state |-> None,
     timer |-> 0,
     callback_handlers |-> {}, pending_state |-> None, url_check_timer |-> FALSE,
     sso_state |-> None, code_verifier |-> FALSE,
     access_token |-> None, refresh_token |-> None, token_expires_at |-> <<>>,
     tasks |-> {}, states_made |-> 0, tasks_made |-> 0, starts |-> 0, callbacks |-> 0,
     callbacks_emitted |-> <<>>,
     started |-> 0, start_failures |-> 0,
     outcomes |-> [k \in DOMAIN StateTable |-> [completed |-> 0, failed |-> 0]],
     returned_true |-> {}]

\* URLProtocolHandler.register_callback_handler
register_callback_handler(a, state) ==
    [a EXCEPT !.callback_handlers = @ \cup {state}, !.pending_state = state,
              !.url_check_timer = TRUE]

\* URLProtocolHandler.unregister_callback_handler
unregister_callback_handler(a, state) ==
    [a EXCEPT !.callback_handlers = @ \ {state},
              !.pending_state = IF @ = state THEN None ELSE @,
              !.url_check_timer = IF a.pending_state = state THEN FALSE ELSE @]

\* AuthenticationManager._cleanup_auth_state
cleanup_auth_state(a) ==
    LET a1 == [a EXCEPT !.is_authenticating = FALSE, !.timer = 0]
        a2 == IF a.current_state # None
              THEN unregister_callback_handler(a1, a.current_state) ELSE a1
    IN [a2 EXCEPT !.current_state = None]

\* authentication_completed.emit / authentication_failed.emit for the attempt
\* of state number k
emit_completed(a, k) == [a EXCEPT !.outcomes[k].completed = @ + 1]
emit_failed(a, k) == [a EXCEPT !.outcomes[k].failed = @ + 1]

\* SSOAuthenticator.generate_authorization_url: the next state is drawn and
\* kept, and the PKCE pair made when there is none
generate_authorization_url(a) ==
    [a EXCEPT !.code_verifier = TRUE, !.states_made = @ + 1,
              !.sso_state = StateTable[a.states_made + 1]]

\* AuthenticationManager.start_authentication from "Starting EVE Online
\* authentication..." on, where nothing is awaited any more.  open_ok is what
\* QDesktopServices.openUrl returns
start_authentication_body(a, open_ok) ==
    LET a1 == [a EXCEPT !.is_authenticating = TRUE, !.started = @ + 1]
    IN IF ~a.client_id
       THEN [auth |-> [cleanup_auth_state(a1) EXCEPT !.start_failures = @ + 1],
             ret |-> "False"]
       ELSE LET a2 == generate_authorization_url(a1)
                state == a2.sso_state
                a3 == [register_callback_handler([a2 EXCEPT !.current_state = state],
                                                 state)
                          EXCEPT !.timer = StateIndex(state)]
            IN IF ~open_ok
               THEN [auth |-> [cleanup_auth_state(a3) EXCEPT !.start_failures = @ + 1],
                     ret |-> "False"]
               ELSE [auth |-> [a3 EXCEPT !.returned_true = @ \cup {StateIndex(state)}],
                     ret |-> "True"]

\* AuthenticationManager.initialize as the main window runs it at start-up:
\* the SSOAuthenticator is made
initialize ==
    /\ ~auth.sso_auth
    /\ auth' = [auth EXCEPT !.sso_auth = TRUE]
    /\ call' = [op |-> "initialize", arg |-> <<>>, ret |-> None]
    /\ UNCHANGED <<sceneVars, camera, renderer, ncalls, viewport>>

\* an attempt is in progress: is_authenticating is set, or a
\* start_authentication call is suspended in initialize()
InProgress(a) ==
    a.is_authenticating \/ \E t \in a.tasks : t.kind = "start"

\* AuthenticationManager.start_authentication, up to its return or to the
\* await of initialize(), which it reaches when there is no sso_auth yet
\* (initialize sets self.sso_auth before it awaits)
start_authentication(open_ok) ==
    /\ auth.starts < MaxStarts
    /\ IF auth.is_authenticating
       THEN /\ auth' = [auth EXCEPT !.starts = @ + 1]
            /\ call' = [op |-> "start_authentication", arg |-> <<>>, ret |-> "False"]
       ELSE IF ~auth.sso_auth
       THEN /\ auth' = [auth EXCEPT !.starts = @ + 1, !.sso_auth = TRUE,
                                    !.tasks_made = @ + 1,
                                    !.tasks = @ \cup {[kind |-> "start",
                                                       n |-> auth.tasks_made + 1]}]
            /\ call' = [op |-> "start_authentication", arg |-> <<>>,
                        ret |-> "suspended"]
       ELSE LET res == start_authentication_body([auth EXCEPT !.starts = @ + 1],
                                                 open_ok)
            IN /\ auth' = res.auth
               /\ call' = [op |-> "start_authentication", arg |-> <<>>,
                           ret |-> res.ret]
    /\ UNCHANGED <<sceneVars, camera, renderer, ncalls, viewport>>

\* the await of initialize() in start_authentication returns or raises
\* (_fetch_jwks raises without a cache), and the call runs to its end
start_authentication_resumes(t, initialized, open_ok) ==
    /\ t \in auth.tasks
    /\ t.kind = "start"
    /\ LET a == [auth EXCEPT !.tasks = @ \ {t}]
           res == IF initialized THEN start_authentication_body(a, open_ok)
                  ELSE [auth |-> [cleanup_auth_state(a) EXCEPT !.start_failures = @ + 1],
                        ret |-> "False"]
       IN /\ auth' = res.auth
          /\ call' = [op |-> "start_authentication_resumes", arg |-> <<>>,
                      ret |-> res.ret]
    /\ UNCHANGED <<sceneVars, camera, renderer, ncalls, viewport>>

\* AuthenticationManager._on_callback_received, the slot of callback_received:
\* asyncio.create_task(_process_callback) leaves a task that has not run yet
on_callback_received(a, authorization_code, state) ==
    IF ~a.is_authenticating THEN a
    ELSE IF state # a.current_state
    THEN cleanup_auth_state(emit_failed(a, StateIndex(a.current_state)))
    ELSE [a EXCEPT !.tasks_made = @ + 1,
                   !.tasks = @ \cup {[kind |-> "created", n |-> a.tasks_made + 1,
                                      authorization_code |-> authorization_code,
                                      state |-> state]}]

RECURSIVE deliver_callbacks(_, _)
deliver_callbacks(a, emitted) ==
    IF emitted = <<>> THEN a
    ELSE deliver_callbacks(on_callback_received(a, emitted[1][1], emitted[1][2]),
                           Tail(emitted))

\* URLProtocolHandler.process_callback_url, with the slot the signal is
\* connected to
process_callback_url(url) ==
    LET res == process_callback_url_result(url)
    IN /\ auth.callbacks < MaxCallbacks
       /\ auth' = [deliver_callbacks(auth, res.emitted)
                      EXCEPT !.callbacks = @ + 1, !.callbacks_emitted = res.emitted]
       /\ call' = [op |-> "process_callback_url", arg |-> url, ret |-> res.ret]
       /\ UNCHANGED <<sceneVars, camera, renderer, ncalls, viewport>>

\* SSOAuthenticator.is_authenticated
is_authenticated(a) ==
    /\ a.access_token # None
    /\ a.token_expires_at # <<>>
    /\ a.token_expires_at[1] > Now + ExpiresSoon

\* AuthenticationManager._process_callback when exchange_code_for_tokens
\* raises: the except branch
process_callback_fails(a, state) ==
    emit_failed(cleanup_auth_state(a), StateIndex(state))

\* the task of _process_callback runs up to the await of the token request:
\* exchange_code_for_tokens checks the state and the verifier first
exchange_begins(t) ==
    /\ t \in auth.tasks
    /\ t.kind = "created"
    /\ LET a == [auth EXCEPT !.tasks = @ \ {t}]
       IN IF t.state # a.sso_state \/ ~a.code_verifier
          THEN /\ auth' = process_callback_fails(a, t.state)
               /\ call' = [op |-> "exchange_code_for_tokens",
                           arg |-> <<None, is_authenticated(auth)>>, ret |-> "raises"]
          ELSE /\ auth' = [a EXCEPT !.tasks = @ \cup {[t EXCEPT !.kind = "posted"]}]
               /\ call' = [op |-> "exchange_code_for_tokens",
                           arg |-> <<None, is_authenticated(auth)>>,
                           ret |-> "suspended"]
    /\ UNCHANGED <<sceneVars, camera, renderer, ncalls, viewport>>

\* the token request comes back and _process_callback runs to its end.
\* response is "http_error" (the post or raise_for_status raises),
\* "no_access_token" (the JSON has none), "invalid_token" (validate_access_token
\* raises) or "ok"; the tokens are stored before the access token is validated
exchange_ends(t, response, expires_in) ==
    /\ t \in auth.tasks
    /\ t.kind = "posted"
    /\ LET a == [auth EXCEPT !.tasks = @ \ {t}]
           stored == [a EXCEPT !.access_token = TokenTable[t.n],
                               !.refresh_token = RefreshTable[t.n],
                               !.token_expires_at = <<Now + expires_in>>]
           before == is_authenticated(auth)
       IN CASE response \in {"http_error", "no_access_token"} ->
                /\ auth' = process_callback_fails(a, t.state)
                /\ call' = [op |-> "exchange_code_for_tokens",
                            arg |-> <<None, before>>, ret |-> "raises"]
            [] response = "invalid_token" ->
                /\ auth' = process_callback_fails(stored, t.state)
                /\ call' = [op |-> "exchange_code_for_tokens",
                            arg |-> <<TokenTable[t.n], before>>, ret |-> "raises"]
            [] response = "ok" ->
                /\ auth' = emit_completed(cleanup_auth_state(stored),
                                          StateIndex(t.state))
                /\ call' = [op |-> "exchange_code_for_tokens",
                            arg |-> <<TokenTable[t.n], before>>, ret |-> "returns"]
    /\ UNCHANGED <<sceneVars, camera, renderer, ncalls, viewport>>

\* AuthenticationManager._on_auth_timeout: the single-shot timer fires
on_auth_timeout ==
    /\ auth.timer # 0
    /\ auth' = emit_failed(cleanup_auth_state(auth), auth.timer)
    /\ call' = [op |-> "_on_auth_timeout", arg |-> <<>>, ret |-> None]
    /\ UNCHANGED <<sceneVars, camera, renderer, ncalls, viewport>>

\* AuthenticationManager.cancel_authentication
cancel_authentication ==
    /\ IF ~auth.is_authenticating THEN auth' = auth
       ELSE auth' = emit_failed(cleanup_auth_state(auth),
                                StateIndex(auth.current_state))
    /\ call' = [op |-> "cancel_authentication", arg |-> <<>>, ret |-> None]
    /\ UNCHANGED <<sceneVars, camera, renderer, ncalls, viewport>>

---------------------------------------------------------------------------
(* The specifications *)

\* Scene3D(), Camera3D() and HolographicRenderer() as constructed, with or
\* without the OpenGL libraries
Constructed(opengl_available) ==
    /\ Scene3D_init
    /\ camera = Camera3D_init
    /\ renderer = HolographicRenderer_init(opengl_available)
    /\ call = [op |-> "init", arg |-> <<>>, ret |-> None]
    /\ ncalls = 0
    /\ viewport = HolographicViewport_init
    /\ auth = AuthManager_init

SceneInit == Constructed(TRUE)
RendererInit == \E a \in BOOLEAN : Constructed(a)

OnlyScene == UNCHANGED <<camera, renderer, ncalls, uiVars>>

GridPositions == {<<0, 0, 0>>, <<15, 0, -5>>}

\* every mutator of Scene3D, over the root node and one more
SceneNodes == {"root", NodeNameTable[1]}

SceneNext ==
    \/ \E n \in SceneNodes \ {"root"}, p \in SceneNodes : create_node(n, p) /\ OnlyScene
    \/ \E n \in SceneNodes : remove_node(n) /\ OnlyScene
    \/ \E i \in Ids, p \in GridPositions, n \in SceneNodes :
            add_object(i, SceneObject(p, TRUE, TRUE, 24, TRUE), n) /\ OnlyScene
    \/ \E i \in Ids : remove_object(i) /\ OnlyScene
    \/ \E i \in Ids, p \in GridPositions \cup {NoVec} :
            update_object_transform(i, p) /\ OnlyScene
    \/ clear /\ OnlyScene

Spec == SceneInit /\ [][SceneNext]_vars

\* the node table alone: create_node, remove_node and clear
TreeNext ==
    \/ \E n \in NodeNames \ {"root"}, p \in NodeNames : create_node(n, p) /\ OnlyScene
    \/ \E n \in NodeNames : remove_node(n) /\ OnlyScene
    \/ clear /\ OnlyScene

SpecTree == SceneInit /\ [][TreeNext]_vars

\* picking: objects come and go under the root node and rays are cast
RayPositions == {<<0, 0, -5>>, <<1, 0, -3>>, <<0, 2, -2>>, <<0, 0, 4>>}
RayOrigins == {<<0, 0, 0>>, <<0, 0, -4>>}
RayDirections == {<<0, 0, -1>>, <<0, 0, 1>>, <<1, 0, 0>>}
RayLengths == {1000, 5}

RaycastNext ==
    \/ \E i \in Ids, p \in RayPositions, sel \in BOOLEAN :
            add_object(i, SceneObject(p, TRUE, sel, 24, TRUE), "root") /\ OnlyScene
    \/ \E i \in Ids : remove_object(i) /\ OnlyScene
    \/ \E o \in RayOrigins, d \in RayDirections, m \in RayLengths :
            raycast(o, d, m) /\ OnlyScene

SpecRaycast == SceneInit /\ [][RaycastNext]_vars

\* search by distance: objects come and go under the root node and the
\* "panels" node, and the scene is searched around the origin
QueryIds == {IdTable[i] : i \in 1..MaxQueryObjs}
QueryNodes == {"root", NodeNameTable[1]}
QueryObjects ==
    {TypedSceneObject(<<0, 0, 0>>, TRUE, "panel"),
     TypedSceneObject(<<5, 0, 0>>, FALSE, "generic"),
     TypedSceneObject(<<100, 100, 100>>, TRUE, "generic"),
     TypedSceneObject(<<6, 8, 0>>, TRUE, "panel")}
QueryRadii == {10, 0}

QueryInit ==
    /\ Constructed(TRUE)!2
    /\ Constructed(TRUE)!3
    /\ Constructed(TRUE)!4
    /\ Constructed(TRUE)!5
    /\ Constructed(TRUE)!6
    /\ Constructed(TRUE)!7
    /\ nodes = << <<"root", SceneNode(None)>> >>
    /\ objects = <<>>
    /\ spatial_grid = <<>>
    /\ heap = [r \in 1..MaxQueryObjs |-> NoObject]

QueryNext ==
    \/ create_node(NodeNameTable[1], "root") /\ OnlyScene
    \/ \E i \in QueryIds, o \in QueryObjects, n \in QueryNodes :
            add_object(i, o, n) /\ OnlyScene
    \/ \E i \in QueryIds : remove_object(i) /\ OnlyScene
    \/ \E r \in QueryRadii : find_objects_near(<<0, 0, 0>>, r) /\ OnlyScene

SpecQuery == QueryInit /\ [][QueryNext]_vars

\* filtered listing: objects of two types, visible or not, come and go under
\* the root node and the "panels" node, and the scene is listed by filter
FilterObjects ==
    {TypedSceneObject(<<0, 0, 0>>, TRUE, "panel"),
     TypedSceneObject(<<0, 0, 0>>, FALSE, "panel"),
     TypedSceneObject(<<0, 0, 0>>, TRUE, "generic")}

FilterNext ==
    \/ create_node(NodeNameTable[1], "root") /\ OnlyScene
    \/ \E i \in Ids, o \in FilterObjects, n \in QueryNodes :
            add_object(i, o, n) /\ OnlyScene
    \/ \E i \in Ids : remove_object(i) /\ OnlyScene
    \/ \E t \in {None, "panel"}, n \in {None, NodeNameTable[1], NodeNameTable[2]},
          v \in BOOLEAN :
            get_objects(t, n, v) /\ OnlyScene

SpecFilter == SceneInit /\ [][FilterNext]_vars

\* a call of a Camera3D method that returns nothing
CameraCallUpTo(bound, op, arg, c) ==
    /\ ncalls < bound
    /\ camera' = c
    /\ call' = [op |-> op, arg |-> arg, ret |-> None]
    /\ ncalls' = ncalls + 1
    /\ UNCHANGED <<sceneVars, renderer, uiVars>>

CameraCall(op, arg, c) == CameraCallUpTo(MaxCalls, op, arg, c)

set_position(v) == CameraCall("set_position", <<v>>, Camera3D_set_position(camera, v))
set_target(v) == CameraCall("set_target", <<v>>, Camera3D_set_target(camera, v))
look_at(v) == CameraCall("look_at", <<v>>, Camera3D_look_at(camera, v))
set_perspective(fov, aspect, near, far) ==
    CameraCall("set_perspective", <<fov, aspect, near, far>>,
               Camera3D_set_perspective(camera, fov, aspect, near, far))
set_aspect_ratio(aspect) ==
    CameraCall("set_aspect_ratio", <<aspect>>, Camera3D_set_aspect_ratio(camera, aspect))
move_forward(d) == CameraCall("move_forward", <<d>>, Camera3D_move_forward(camera, d))
move_right(d) == CameraCall("move_right", <<d>>, Camera3D_move_right(camera, d))
move_up(d) == CameraCall("move_up", <<d>>, Camera3D_move_up(camera, d))
rotate(dy, dp) == CameraCall("rotate", <<dy, dp>>, Camera3D_rotate(camera, dy, dp))
zoom(factor) == CameraCall("zoom", <<factor>>, Camera3D_zoom(camera, factor))
orbit_around_target(dy, dp) ==
    CameraCall("orbit_around_target", <<dy, dp>>,
               Camera3D_orbit_around_target(camera, dy, dp))
reset_to_default == CameraCall("reset_to_default", <<>>, Camera3D_reset_to_default(camera))

\* get_view_matrix(): arg records whether _calculate_view_matrix ran and
\* whether a cached matrix was there, ret is the matrix returned
get_view_matrix ==
    LET c == Camera3D_get_view_matrix(camera)
    IN /\ ncalls < MaxCalls
       /\ camera' = c
       /\ call' = [op |-> "get_view_matrix",
                   arg |-> <<view_recomputed(camera),
                             camera.view_matrix_cache # NoMatrix>>,
                   ret |-> c.view_matrix_cache]
       /\ ncalls' = ncalls + 1
       /\ UNCHANGED <<sceneVars, renderer, uiVars>>

\* get_projection_matrix(): ret is the matrix returned, or ZeroDivisionError
get_projection_matrix ==
    LET res == Camera3D_get_projection_matrix(camera)
    IN /\ ncalls < MaxCalls
       /\ camera' = res.camera
       /\ call' = [op |-> "get_projection_matrix",
                   arg |-> <<projection_recomputed(camera),
                             camera.projection_matrix_cache # NoMatrix>>,
                   ret |-> IF res.raised THEN ZeroDivisionError
                           ELSE res.camera.projection_matrix_cache]
       /\ ncalls' = ncalls + 1
       /\ UNCHANGED <<sceneVars, renderer, uiVars>>

\* the camera alone: every mutator and both matrix reads, MaxCalls calls deep
CameraNext ==
    \/ \E v \in {<<3000, 4000, 0>>, <<0, 0, 0>>} : set_position(v)
    \/ set_target(<<0, 0, -2000>>)
    \/ look_at(<<1000, 0, 0>>)
    \/ set_perspective(60, <<4, 3>>, 500, 100000)
    \/ \E a \in {<<4, 3>>, <<0, 1>>} : set_aspect_ratio(a)
    \/ move_forward(2000)
    \/ move_right(1000)
    \/ move_up(1000)
    \/ rotate(60, 40)
    \/ \E f \in {500, 1} : zoom(f)
    \/ orbit_around_target(90, -20)
    \/ reset_to_default
    \/ get_view_matrix
    \/ get_projection_matrix

SpecCamera == SceneInit /\ [][CameraNext]_vars

\* turning only: rotate with deltas of either sign, small, large and tiny,
\* and reset_to_default
RotateYaws == {0, 60, 0 - 100, 700, TinyNegative}
RotatePitches == {0, 150, 0 - 400}

RotateNext ==
    \/ \E dy \in RotateYaws, dp \in RotatePitches : rotate(dy, dp)
    \/ reset_to_default

SpecRotate == SceneInit /\ [][RotateNext]_vars

\* zooming in: zoom(0.5) is the only camera call, up to MaxZooms times in a
\* row from the default camera, while the scene is filled and emptied
ZoomNext ==
    \/ CameraCallUpTo(MaxZooms, "zoom", <<500>>, Camera3D_zoom(camera, 500))
    \/ \E i \in Ids, p \in GridPositions :
            add_object(i, SceneObject(p, TRUE, TRUE, 24, TRUE), "root") /\ OnlyScene
    \/ \E i \in Ids : remove_object(i) /\ OnlyScene

SpecZoom == SceneInit /\ [][ZoomNext]_vars

\* orbiting: the camera is put beside, above, below and on the target and
\* orbits by deltas that stay inside and go past both ends of the inclination
OrbitPositions == {<<3000, 4000, 0>>, <<0, 7000, 0>>, <<0 - 2000, 0 - 1000, 3000>>,
                   <<1000, 0, 0>>}
OrbitYaws == {90, 0 - 200, 0}
OrbitPitches == {0 - 20, 400, 0 - 400, 0}

OrbitNext ==
    \/ \E v \in OrbitPositions : set_position(v)
    \/ set_target(<<1000, 0, 0>>)
    \/ \E dy \in OrbitYaws, dp \in OrbitPitches : orbit_around_target(dy, dp)
    \/ reset_to_default

SpecOrbit == SceneInit /\ [][OrbitNext]_vars

\* what the GL calls of one initialize_gl do
GlWorks ==
    [context |-> "ok", failing |-> {}, configure_raises |-> FALSE,
     framebuffer_raises |-> FALSE]
GlOutcomes ==
    {GlWorks,
     [GlWorks EXCEPT !.context = "raises"],
     [GlWorks EXCEPT !.context = "none"],
     [GlWorks EXCEPT !.failing = {"holographic_wireframe"}],
     [GlWorks EXCEPT !.configure_raises = TRUE],
     [GlWorks EXCEPT !.framebuffer_raises = TRUE]}
ViewportSizes == {<<1024, 768>>, <<640, 0>>}
FrameTimes == {0, 16}

\* the renderer with its camera and scene, as the viewport widget drives it
RendererNext ==
    \/ \E gl \in GlOutcomes : initialize_gl(gl) /\ UNCHANGED <<ncalls, uiVars>>
    \/ \E size \in ViewportSizes, fails \in BOOLEAN :
            resize_viewport(size[1], size[2], fails) /\ UNCHANGED <<ncalls, uiVars>>
    \/ \E i \in Ids, fails \in BOOLEAN :
            add_holographic_panel(i, <<0, 0, 0>>, fails) /\ UNCHANGED <<ncalls, uiVars>>
    \/ \E i \in Ids : remove_holographic_panel(i) /\ UNCHANGED <<ncalls, uiVars>>
    \/ \E fail_at \in FailNone..FailUniforms + MaxIds, t \in FrameTimes :
            /\ Len(renderer.frame_times) < MaxFrames
            /\ render_frame(fail_at, t)
            /\ UNCHANGED <<ncalls, uiVars>>
    \/ cleanup /\ UNCHANGED <<ncalls, uiVars>>

SpecRenderer == RendererInit /\ [][RendererNext]_vars

\* a long run of frames: the k-th render_frame call takes k milliseconds, or
\* no measurable time at all in the first two calls and in the calls after
\* the window has filled; a call may fail at ctx.clear(); panels come and go
FrameTimesAt(k) == IF k <= 2 \/ k > FrameWindow THEN {k, 0} ELSE {k}

FramesNext ==
    \/ initialize_gl(GlWorks) /\ UNCHANGED <<ncalls, uiVars>>
    \/ add_holographic_panel(IdTable[1], <<0, 0, 0>>, FALSE) /\ UNCHANGED <<ncalls, uiVars>>
    \/ \E fail_at \in {FailNone, FailClear}, t \in FrameTimesAt(ncalls + 1) :
            /\ ncalls < MaxWindowFrames
            /\ fail_at = FailClear => ncalls < 2
            /\ render_frame(fail_at, t)
            /\ ncalls' = ncalls + 1
            /\ UNCHANGED uiVars

SpecFrames == SceneInit /\ [][FramesNext]_vars

\* the viewport as its window uses it: panels are added and removed before and
\* after Qt calls initializeGL, any GL call may fail, and the window closes
ViewportInit ==
    /\ \E a \in BOOLEAN : renderer = HolographicRenderer_init(a)
    /\ nodes = << <<"root", SceneNode(None)>> >>
    /\ objects = <<>>
    /\ spatial_grid = <<>>
    /\ heap = [r \in 1..MaxPanelObjs |-> NoObject]
    /\ Constructed(TRUE)!2
    /\ Constructed(TRUE)!4
    /\ Constructed(TRUE)!5
    /\ Constructed(TRUE)!6
    /\ Constructed(TRUE)!7

ViewportNext ==
    \/ \E gl \in GlOutcomes, raising \in SUBSET DemoIds :
            initializeGL(gl, raising) /\ UNCHANGED <<ncalls, auth>>
    \/ \E i \in Ids, fails \in BOOLEAN :
            add_panel(i, <<0, 0, 0>>, fails) /\ UNCHANGED <<ncalls, auth>>
    \/ \E i \in Ids \cup {DemoPanels[1][1]} :
            remove_panel(i) /\ UNCHANGED <<ncalls, auth>>
    \/ viewport_cleanup /\ UNCHANGED <<ncalls, auth>>

SpecViewport == ViewportInit /\ [][ViewportNext]_vars

\* the authentication manager under its event loop: the user starts and
\* cancels, callback URLs of every shape arrive, the awaits come back in any
\* order and the timer fires whenever it is running
CallbackQuery(code, state) == <<"?", "code", "=", code, "&", "state", "=", state>>
CallbackStates == {StateTable[1], StateTable[2], "forged"}
CallbackUrls ==
    {get_callback_url \o CallbackQuery("c1", st) : st \in CallbackStates}
    \cup {<<protocol_scheme, ":", "/", "/", "/", callback_path>> \o CallbackQuery("c1", st) :
            st \in CallbackStates}
    \cup {<<protocol_scheme, ":", "/", "/", "/", callback_path>>
            \o CallbackQuery("c1", StateTable[1]) \o <<"&", "error", "=", "access_denied">>,
          <<protocol_scheme, ":", "/", "/", "/", callback_path, "?", "code", "=", "c1">>}
TokenResponses == {"http_error", "no_access_token", "invalid_token", "ok"}

AuthNext ==
    \/ initialize
    \/ \E open_ok \in BOOLEAN : start_authentication(open_ok)
    \/ \E t \in auth.tasks, initialized \in BOOLEAN, open_ok \in BOOLEAN :
            start_authentication_resumes(t, initialized, open_ok)
    \/ \E url \in CallbackUrls : process_callback_url(url)
    \/ \E t \in auth.tasks : exchange_begins(t)
    \/ \E t \in auth.tasks, response \in TokenResponses :
            exchange_ends(t, response, DefaultExpiresIn)
    \/ on_auth_timeout
    \/ cancel_authentication

\* config.esi.client_id may or may not be set
AuthInit ==
    /\ Constructed(TRUE)!1
    /\ Constructed(TRUE)!2
    /\ Constructed(TRUE)!3
    /\ Constructed(TRUE)!4
    /\ Constructed(TRUE)!5
    /\ Constructed(TRUE)!6
    /\ \E configured \in BOOLEAN : auth = [AuthManager_init EXCEPT !.client_id = configured]

SpecAuth == AuthInit /\ [][AuthNext]_vars

---------------------------------------------------------------------------
(* Index consistency of the scene: C1 .. C5 *)

FlatIds == DictKeys(objects)
FlatRefs == Range(DictValues(objects))
Registered == DictKeys(nodes)

\* the grid cells that list an id, counted with multiplicity
CellsOf(grid, id) ==
    {<<k, i>> : k \in DOMAIN grid, i \in 1..MaxIds + MaxObjs} \cap
    {c \in (DOMAIN grid) \X (1..MaxIds + MaxObjs) :
        c[2] \in DOMAIN grid[c[1]] /\ grid[c[1]][c[2]] = id}

\* C1: every id of the flat index is listed in exactly one grid cell, the cell
\* of floor(position / 10) of its object's current position, and no cell lists
\* an id the flat index does not hold.
C1_GridConsistent ==
    /\ \A id \in FlatIds :
        /\ Cardinality(CellsOf(spatial_grid, id)) = 1
        /\ \A c \in CellsOf(spatial_grid, id) :
              c[1] = GridKey(heap[DictGet(objects, id)].position)
    /\ \A k \in DOMAIN spatial_grid : Range(spatial_grid[k]) \subseteq FlatIds

\* the registered nodes whose object map has the id
HoldersOf(ns, id) == {n \in DictKeys(ns) : DictHas(DictGet(ns, n).objects, id)}

\* C2: every id of the flat index is a key of exactly one registered node's
\* object map, with the same object as the flat index, and no registered node
\* holds an id the flat index does not hold.
C2_NodeIndexConsistent ==
    /\ \A id \in FlatIds :
        /\ Cardinality(HoldersOf(nodes, id)) = 1
        /\ \A n \in HoldersOf(nodes, id) :
              DictGet(DictGet(nodes, n).objects, id) = DictGet(objects, id)
    /\ \A n \in Registered : DictKeys(DictGet(nodes, n).objects) \subseteq FlatIds

\* the <<id, object>> entries held by the nodes of a set
HeldBy(ns, names) == UNION {Range(DictGet(ns, n).objects) : n \in names}

\* C3: after remove_node(name) returns True, the node and its descendants are
\* not in the node table, and every object the removed subtree held (under the
\* id the flat index had it) is in neither the flat index nor any grid cell.
C3_RemoveNodeDeregisters ==
    [][ (call'.op = "remove_node" /\ call'.ret = "True") =>
            LET gone == Subtree(nodes, call'.arg[1])
                held == {e \in HeldBy(nodes, gone) : e \in Range(objects)}
            IN /\ gone \cap DictKeys(nodes') = {}
               /\ \A e \in held :
                    /\ e \notin Range(objects')
                    /\ \A k \in DOMAIN spatial_grid' :
                          e[1] \notin Range(spatial_grid'[k]) ]_vars

\* C4: the GPU handle of an object is released exactly once, by the
\* remove_object, remove_node or clear that takes the object out of the flat
\* index: not zero times, not twice, and not while the object is in the scene.
C4_ReleasedExactlyOnce ==
    [][ \A r \in Refs :
            (heap'[r].alloc /\ heap'[r].vao) =>
                /\ (/\ r \in FlatRefs
                    /\ r \notin FlatRefs'
                    /\ call'.op \in {"remove_object", "remove_node", "clear"})
                   => heap'[r].released = 1
                /\ r \in FlatRefs' => heap'[r].released = 0
                /\ heap'[r].released <= 1 ]_vars

\* the ancestors of a node, following parent at most Len(ns) times
RECURSIVE ReachesRoot(_, _, _)
ReachesRoot(ns, name, fuel) ==
    IF name = "root" THEN TRUE
    ELSE IF fuel = 0 \/ ~DictHas(ns, name) THEN FALSE
    ELSE ReachesRoot(ns, DictGet(ns, name).parent, fuel - 1)

\* how many times registered nodes list a name as a child
ChildLinks(ns, name) ==
    {<<p, i>> \in DictKeys(ns) \X (1..MaxNodes + 1) :
        i \in DOMAIN DictGet(ns, p).children /\ DictGet(ns, p).children[i] = name}

---------------------------------------------------------------------------
(* Picking: C10 *)

\* length of the projection of an object's centre onto the ray
ProjectionOf(id, origin, dir) ==
    Dot(VSub(heap[DictGet(objects, id)].position, origin), dir)

\* squared distance of an object's centre from the line of the ray (dir a unit
\* vector): |centre - origin|^2 - projection^2
PerpSquared(id, origin, dir) ==
    LET v == VSub(heap[DictGet(objects, id)].position, origin)
    IN Dot(v, v) - ProjectionOf(id, origin, dir) * ProjectionOf(id, origin, dir)

\* the objects a ray may return
RayCandidates(origin, dir, max) ==
    {id \in FlatIds :
        /\ heap[DictGet(objects, id)].selectable
        /\ ProjectionOf(id, origin, dir) >= 0
        /\ ProjectionOf(id, origin, dir) < max
        /\ PerpSquared(id, origin, dir) <= 1}

---------------------------------------------------------------------------
(* The camera's matrix caches: C6 *)

\* C6: after any run of camera mutators and matrix reads, get_view_matrix
\* returns the look-at matrix of the current position, target and up, and
\* get_projection_matrix the perspective matrix of the current fov, aspect
\* ratio, near and far planes (or raises where that matrix has a division by
\* zero): the matrix returned is never a stale cache.
C6_NoStaleMatrix ==
    /\ call.op = "get_view_matrix" => call.ret = calculate_view_matrix(camera)
    /\ call.op = "get_projection_matrix" =>
            call.ret = calculate_projection_matrix(camera)

\* a view matrix was read, the camera was changed, and the view matrix read
\* again differs from the one of the default camera
C6_Witness ==
    /\ call.op = "get_view_matrix"
    /\ call.arg = <<TRUE, TRUE>>
    /\ call.ret # calculate_view_matrix(Camera3D_init)
    /\ call.ret # NaNMatrix

---------------------------------------------------------------------------
(* The renderer's life cycle: C7 .. C9 *)

\* C7: while the renderer is not initialized, render_frame, resize_viewport
\* and add_holographic_panel return without raising and leave the viewport
\* size, the camera, the scene and the render stats as they were.
C7_UninitializedNoOps ==
    [][ (/\ ~renderer.is_initialized
         /\ call'.op \in {"render_frame", "resize_viewport", "add_holographic_panel"})
        => /\ call'.ret # "raised"
           /\ renderer'.viewport_size = renderer.viewport_size
           /\ camera' = camera
           /\ sceneVars' = sceneVars
           /\ renderer'.stats = renderer.stats ]_vars

\* C8: when initialize_gl is called on a renderer that holds nothing and the
\* context creation fails or a shader program does not compile, it returns
\* False, is_initialized stays False, and no context, shader manager or
\* framebuffer is left set.
C8_CleanInitFailure ==
    [][ (/\ call'.op = "initialize_gl"
         /\ renderer = HolographicRenderer_init(renderer.opengl_available)
         /\ (call'.arg[1] # "ok" \/ call'.arg[2] # {}))
        => /\ call'.ret = "False"
           /\ ~renderer'.is_initialized
           /\ ~renderer'.ctx
           /\ ~renderer'.shader_manager
           /\ renderer'.frame_buffer = "None" ]_vars

\* C9: when a step of render_frame raises, the call still returns (the
\* exception is caught inside), the renderer stays initialized, and the failed
\* frame leaves nothing behind that the next frame depends on: the next
\* render_frame is not skipped, it ends as it would have ended in place of the
\* failed one, and a frame that runs to its end leaves the renderer and
\* the camera exactly as it would have.
C9_FailureNotPersistent ==
    [][ (call'.op = "render_frame" /\ call'.ret = "caught")
        => /\ renderer'.is_initialized
           /\ renderer'.ctx
           /\ \A f \in FailNone..FailUniforms + MaxIds, t \in FrameTimes :
                /\ render_frame_result(renderer', camera', Scene', f, t).ret # "skipped"
                /\ render_frame_result(renderer', camera', Scene', f, t).ret
                     = render_frame_result(renderer, camera, Scene, f, t).ret
           /\ \A t \in FrameTimes :
                render_frame_result(renderer', camera', Scene', FailNone, t)
                     = render_frame_result(renderer, camera, Scene, FailNone, t) ]_vars

\* the draw of the second of two panels raised after the first was drawn
C9_Witness ==
    /\ call.op = "render_frame"
    /\ call.ret = "caught"
    /\ call.arg[1] = FailUniforms + 2
    /\ renderer.stats.draw_calls = 1
    /\ renderer.is_initialized

---------------------------------------------------------------------------
(* Camera3D: C11 .. *)

\* get_distance_to_target() of a camera
DistanceToTarget(c) == Norm(VSub(c.position, c.target))

\* C11: after zoom(factor), from any camera state and for any factor, the
\* distance from position to target is at least 0.1 (to within the rounding of
\* the last digit) and the position is on the side of the target it was on.
C11_ZoomFloor ==
    [][ call'.op = "zoom" =>
            /\ DistanceToTarget(camera') >= MinZoomLength - 2
            /\ Dot(VSub(camera'.position, camera'.target),
                   VSub(camera.position, camera.target)) > 0 ]_vars

\* C13: no camera operation propagates NaN or a division by zero; in
\* particular get_view_matrix, in every camera state (position equal to target
\* and forward parallel to up included), returns a matrix without NaN.
C13_NoNaN ==
    /\ call.op = "get_view_matrix" => call.ret # NaNMatrix
    /\ camera.view_matrix_cache # NaNMatrix

---------------------------------------------------------------------------
(* Scene3D: C12, C14 .. C17 *)

\* C12: create_node returns no node when the name is already registered or
\* the parent name is not registered, and then leaves the node table as it was.
C12_CreateNodeFails ==
    [][ (/\ call'.op = "create_node"
         /\ \/ DictHas(nodes, call'.arg[1])
            \/ ~DictHas(nodes, call'.arg[2]))
        => /\ call'.ret = None
           /\ nodes' = nodes ]_vars

\* Scene3D.get_stats on scene S: the counts taken from the three indices
Scene3D_get_stats(S) ==
    [total_objects |-> Len(S.objects),
     total_nodes |-> Len(S.nodes),
     spatial_grid_cells |-> Cardinality(DOMAIN S.spatial_grid)]

\* C14: in every scene state, for every id and every object, add_object(id,
\* obj) followed by remove_object(id) leaves get_stats()['total_objects'] at
\* the value it had before the add.
C14_AddRemoveRoundTrip ==
    \A i \in Ids, p \in GridPositions :
        LET ref == NextRef(heap)
            added == Scene3D_add_object(Scene, i, SceneObject(p, TRUE, TRUE, 24, TRUE),
                                        ref, "root").scene
            removed == Scene3D_remove_object(added, i).scene
        IN ref # 0 =>
              Scene3D_get_stats(removed).total_objects
                  = Scene3D_get_stats(Scene).total_objects

SquaredDistance(p, q) ==
    (p[1] - q[1]) * (p[1] - q[1]) + (p[2] - q[2]) * (p[2] - q[2])
        + (p[3] - q[3]) * (p[3] - q[3])

PositionOf(object_id) == heap[DictGet(objects, object_id)].position

\* the scenario of C15: exactly three objects, all under "panels", at (0,0,0),
\* (5,0,0) and (100,100,100); a and b are the ids of the first two
PanelsScenario(a, b) ==
    /\ DictHas(nodes, "panels")
    /\ Len(objects) = 3
    /\ DictGet(nodes, "panels").objects = objects
    /\ DictHas(objects, a) /\ PositionOf(a) = <<0, 0, 0>>
    /\ DictHas(objects, b) /\ PositionOf(b) = <<5, 0, 0>>
    /\ \E c \in DictKeys(objects) : PositionOf(c) = <<100, 100, 100>>

\* C15: find_objects_near(position, radius) returns, each once, exactly the
\* ids of the flat index whose object lies at a squared distance of at most
\* radius squared from position (the boundary included, whatever the node, the
\* visibility or the grid cell); with three objects under "panels" at (0,0,0),
\* (5,0,0) and (100,100,100), find_objects_near((0,0,0), 10) returns the ids of
\* the first two only.
C15_FindObjectsNear ==
    call.op = "find_objects_near" =>
        LET position == call.arg[1]
            radius == call.arg[2]
            near == {i \in DictKeys(objects) :
                        SquaredDistance(PositionOf(i), position) <= radius * radius}
        IN /\ Range(call.ret) = near
           /\ Len(call.ret) = Cardinality(near)
           /\ \A a, b \in QueryIds :
                 (PanelsScenario(a, b) /\ position = <<0, 0, 0>> /\ radius = 10)
                    => Range(call.ret) = {a, b}

C15_Witness ==
    /\ call.op = "find_objects_near"
    /\ call.arg = << <<0, 0, 0>>, 10 >>
    /\ PanelsScenario("p1", "p2")
    /\ call.ret = <<"p1", "p2">>

\* the objects get_objects has to choose from: the named node's own objects,
\* or all objects of the flat index
InScope(node_name) ==
    IF node_name = None THEN Range(DictValues(objects))
    ELSE IF DictHas(nodes, node_name)
         THEN Range(DictValues(DictGet(nodes, node_name).objects))
         ELSE {}

\* C16: get_objects(object_type, node_name, visible_only) returns exactly the
\* objects in scope (the named node's own objects, or all objects of the flat
\* index when no node is named) that are of object_type when one is given and
\* visible when visible_only is true; an unknown node name gives an empty list,
\* and every object returned is one the flat index holds.
C16_GetObjects ==
    call.op = "get_objects" =>
        LET object_type == call.arg[1]
            node_name == call.arg[2]
            visible_only == call.arg[3]
        IN /\ Range(call.ret) =
                 {obj \in InScope(node_name) :
                     /\ object_type # None => heap[obj].object_type = object_type
                     /\ visible_only => heap[obj].visible}
           /\ (node_name # None /\ ~DictHas(nodes, node_name)) => call.ret = <<>>
           /\ Range(call.ret) \subseteq Range(DictValues(objects))

\* the objects of the scene: those of the flat index and those of the nodes
InScene == FlatRefs \cup {e[2] : e \in HeldBy(nodes, Registered)}

\* C17: after clear(), from any scene state, the flat index and the spatial
\* grid are empty, the node table holds only a fresh "root" node without
\* children and without objects, and every object that was in the scene and
\* has a GPU handle has had the handle released.
C17_Clear ==
    [][ call'.op = "clear" =>
            /\ objects' = <<>>
            /\ DOMAIN spatial_grid' = {}
            /\ nodes' = << <<"root", SceneNode(None)>> >>
            /\ \A r \in InScene : heap[r].vao => heap'[r].released >= 1 ]_vars

---------------------------------------------------------------------------
(* Camera3D: C18 .. C20 *)

\* C18: after any sequence of rotate calls, with any deltas and with
\* reset_to_default in between, pitch is in [-89, 89] degrees and yaw is in
\* [0, 360) degrees.
C18_AnglesInRange ==
    /\ camera.pitch \in (0 - MaxPitch)..MaxPitch
    /\ camera.yaw \in 0..(FullTurn - 1)

\* the tolerance on a distance: half a percent, the error of the rational
\* sine and cosine, and two thousandths for the roundings
DistanceTolerance(distance) == distance \div 200 + 2

\* C19: orbit_around_target(dy, dp) leaves the target where it is and the
\* distance from position to target what it was, within tolerance, for any
\* deltas and in any camera state, the inclination clamped or not, the radius
\* zero or not.
C19_OrbitKeepsDistance ==
    [][ call'.op = "orbit_around_target" =>
            LET before == DistanceToTarget(camera)
                after == DistanceToTarget(camera')
            IN /\ camera'.target = camera.target
               /\ after - before <= DistanceTolerance(before)
               /\ before - after <= DistanceTolerance(before) ]_vars

\* an orbit past the lower end of the inclination has been made at a distance
\* of 5 from the target: the camera is below the target, a distance of 5 away
C19_Witness ==
    /\ call.op = "orbit_around_target"
    /\ call.arg[2] = 400
    /\ camera.position[2] < camera.target[2]
    /\ DistanceToTarget(camera) \in 4975..5025

ViewMutators ==
    {"set_position", "set_target", "look_at", "move_forward", "move_right", "move_up",
     "rotate", "zoom", "orbit_around_target", "reset_to_default"}
ProjectionMutators == {"set_perspective", "set_aspect_ratio"}

\* C20: the camera matrices are recomputed lazily.  A read recomputes only
\* when its dirty flag is set and leaves the flag cleared, so a read that
\* follows a read recomputes nothing; only a view mutator sets the view flag
\* and only a projection mutator sets the projection flag, so a change of the
\* projection parameters alone causes no view recomputation and a change of
\* the view causes no projection recomputation.
C20_Lazy ==
    [][ /\ call'.op = "get_view_matrix" =>
              /\ call'.arg[1] => camera.view_dirty
              /\ ~camera'.view_dirty
              /\ call.op = "get_view_matrix" => ~call'.arg[1]
              /\ camera'.projection_dirty = camera.projection_dirty
              /\ camera'.projection_matrix_cache = camera.projection_matrix_cache
        /\ (call'.op = "get_projection_matrix" /\ call'.ret # ZeroDivisionError) =>
              /\ call'.arg[1] => camera.projection_dirty
              /\ ~camera'.projection_dirty
              /\ (call.op = "get_projection_matrix" /\ call.ret # ZeroDivisionError)
                    => ~call'.arg[1]
              /\ camera'.view_dirty = camera.view_dirty
              /\ camera'.view_matrix_cache = camera.view_matrix_cache
        /\ call'.op \in ProjectionMutators =>
              /\ camera'.view_dirty = camera.view_dirty
              /\ camera'.view_matrix_cache = camera.view_matrix_cache
        /\ call'.op \in ViewMutators =>
              /\ camera'.projection_dirty = camera.projection_dirty
              /\ camera'.projection_matrix_cache = camera.projection_matrix_cache
        /\ (camera'.view_dirty /\ ~camera.view_dirty) => call'.op \in ViewMutators
        /\ (camera'.projection_dirty /\ ~camera.projection_dirty)
              => call'.op \in ProjectionMutators ]_vars

\* the view matrix was read, the projection parameters were changed, and the
\* view matrix read again came from the cache
C20_Witness ==
    /\ call.op = "get_view_matrix"
    /\ call.arg = <<FALSE, TRUE>>
    /\ camera.fov = 60
    /\ camera.projection_dirty

---------------------------------------------------------------------------
(* HolographicRenderer: C21, C22 *)

\* the objects of the flat index with visible = true
VisibleRefs == {r \in FlatRefs : heap[r].visible}

C22_FrameWindow ==
    [][ /\ Len(renderer'.frame_times) <= FrameWindow
        /\ (call'.op = "render_frame" /\ call'.ret = "completed") =>
              LET t == renderer'.stats.frame_time
                  arrived == Append(renderer.frame_times, t)
              IN /\ renderer'.frame_times =
                        SubSeq(arrived, Max(1, Len(arrived) - FrameWindow + 1),
                               Len(arrived))
                 /\ t > 0 => renderer'.stats.fps = RoundDiv(1000, t)
                 /\ t = 0 => renderer'.stats.fps = renderer.stats.fps
        /\ (call'.op = "render_frame" /\ call'.ret # "completed") =>
              renderer'.frame_times = renderer.frame_times ]_vars

\* 62 frames have completed: the window holds 60 samples, those of the third
\* frame to the last
C22_Witness ==
    /\ call.op = "render_frame"
    /\ call.ret = "completed"
    /\ ncalls = FrameWindow + 2
    /\ Len(renderer.frame_times) = FrameWindow
    /\ Head(renderer.frame_times) = 3
    /\ renderer.frame_times[FrameWindow] = renderer.stats.frame_time

---------------------------------------------------------------------------
(* Camera3D: C23, C28 *)

C28_RotateZeroIdentity ==
    [][ (call'.op = "rotate" /\ call'.arg = <<0, 0>>) =>
            /\ camera'.target = camera.target
            /\ camera'.position = camera.position ]_vars

---------------------------------------------------------------------------
(* Scene3D: C25 *)

\* the call just made was a scene mutator that reported failure
ReportedFailure ==
    \/ /\ call.op \in {"add_object", "remove_object", "update_object_transform",
                        "remove_node"}
       /\ call.ret = "False"
    \/ call.op = "create_node" /\ call.ret = None

\* C25: a scene mutator that reports failure (add_object with an unregistered
\* node name, remove_object and update_object_transform with an unknown id,
\* remove_node with an unknown name or with "root", create_node with an
\* unregistered parent) leaves the node table, the nodes' object maps, the
\* flat index and the spatial grid as they were.
C25_FailureChangesNothing ==
    [][ ReportedFailure' =>
            /\ nodes' = nodes
            /\ objects' = objects
            /\ spatial_grid' = spatial_grid
            /\ \A r \in FlatRefs : heap'[r] = heap[r] ]_vars

\* an add_object under a node that is not registered has failed on a scene
\* that holds an object
C25_Witness ==
    /\ call.op = "add_object"
    /\ call.ret = "False"
    /\ ~DictHas(nodes, call.arg[2])
    /\ Len(objects) >= 1

---------------------------------------------------------------------------
(* HolographicViewport: C29 *)

\* C29: once the viewport has a renderer and that renderer is initialized,
\* the panel ids the viewport tracks are the object ids of the renderer's
\* scene, whatever add_panel and remove_panel calls were made, before or
\* after initializeGL and with or without a failure of the panel geometry
C29_PanelsMatchScene ==
    (viewport.has_renderer /\ renderer.is_initialized)
        => viewport.panels = DictKeys(objects)

---------------------------------------------------------------------------
(* URLProtocolHandler, AuthenticationManager, SSOAuthenticator: C24, C26, C27, C30 *)

\* C24: process_callback_url, given the URL of get_callback_url followed by
\* ?code=C&state=S with C and S not empty and no error parameter, returns
\* True and emits callback_received(C, S) exactly once
C24_CallbackUrlAccepted ==
    \A st \in CallbackStates :
        (/\ call.op = "process_callback_url"
         /\ call.arg = get_callback_url \o CallbackQuery("c1", st))
            => /\ call.ret = "True"
               /\ auth.callbacks_emitted = << <<"c1", st>> >>

\* C26: a start_authentication call made while an attempt is in progress
\* (is_authenticating set, or an earlier call suspended in initialize())
\* returns False and leaves current_state, the timeout timer and the
\* registered callback handlers as they were
C26_OneAttemptAtATime ==
    [][(call'.op = "start_authentication" /\ InProgress(auth))
            => /\ call'.ret = "False"
               /\ auth'.current_state = auth.current_state
               /\ auth'.timer = auth.timer
               /\ auth'.callback_handlers = auth.callback_handlers]_vars

\* nothing of an attempt is left: not authenticating, the timer stopped and
\* no coroutine suspended
Quiescent(a) == ~a.is_authenticating /\ a.timer = 0 /\ a.tasks = {}

\* C27: an attempt whose start_authentication returned True never gets more
\* than one outcome signal, authentication_completed and
\* authentication_failed counted together, and has got exactly one when
\* nothing of an attempt is left
C27_OneOutcome ==
    \A k \in auth.returned_true :
        /\ auth.outcomes[k].completed + auth.outcomes[k].failed <= 1
        /\ Quiescent(auth) =>
                auth.outcomes[k].completed + auth.outcomes[k].failed = 1

\* C30: when exchange_code_for_tokens raises, the tokens it got from the
\* token endpoint are not stored, and is_authenticated() is True afterwards
\* only if it was True before
C30_NoTokenAfterFailure ==
    (call.op = "exchange_code_for_tokens" /\ call.ret = "raises")
        => /\ call.arg[1] # None => auth.access_token # call.arg[1]
           /\ is_authenticated(auth) => call.arg[2]

====
